---- MODULE Spec2Model ----
(***************************************************************************)
(* A model of the CHIP-8 interpreter of chip8/src: the opcode decoder      *)
(* (vm/opcode.rs), the execution engine Vm (vm.rs) and the loader of       *)
(* lib.rs.  Every method of Vm is an operator from an engine record (and   *)
(* the method's arguments) to the engine record it leaves behind and the   *)
(* value it returns; the actions apply these operators to the one engine   *)
(* the host owns.                                                          *)
(***************************************************************************)
EXTENDS Integers, Sequences, FiniteSets, TLC

VARIABLES
    emu,              \* "none": no engine yet; "ready": load_rom returned an Emu;
                      \* "aborted": a panic unwound out of the engine
    vm,               \* the fields of Vm (vm.rs:16-34), meaningful once emu # "none";
                      \* ram is held as the function of its non-zero bytes and
                      \* display as the set of its lit cells
    call,             \* the last call the host made, with its arguments
    result,           \* what that call returned
    opcode,           \* tick's local `opcode`: the last outcome of Opcode::try_from
    overflow_checks,  \* the build: "on" panics on integer overflow, "off" wraps,
                      \* "unknown" until an overflow has shown which it is
    ticks,            \* number of tick() calls made so far
    timer_run,        \* tick_timers() calls since the last store-timer instruction
    display_before    \* the lit cells as they were before the last draw instruction

vars == <<emu, vm, call, result, opcode, overflow_checks, ticks, timer_run,
          display_before>>

----------------------------------------------------------------------------
(* Program constants *)

MEM_SIZE == 4096
ROM_START == 512
LOAD_ROM_LIMIT == 4096 - 200
DISPLAY_WIDTH == 64
DISPLAY_HEIGHT == 32
DISPLAY_LEN == DISPLAY_WIDTH * DISPLAY_HEIGHT
NUM_KEYS == 16
NUM_REGS == 16
U8 == 256
U16 == 65536

(* Bounds of the model *)

MaxTicks == 6
MaxTimerRun == 2
MaxRun == 256
MaxCallTicks == 72
MaxAluTicks == 3
MaxDrawTicks == 6
MaxKeyTicks == 3
MaxBlockTicks == 22
MaxRandTicks == 5
MaxSkipTicks == 3
MaxRunTicks == 6
MaxAddTicks == 490
MaxJumpTicks == 3
MaxFlagTicks == 4
MaxFaultTicks == 9

----------------------------------------------------------------------------
(* Values returned by the engine: Result<(), VmError>, lib.rs' Error, and a *)
(* panic, which is no return value but the other way a call can end.        *)

Ok == <<"Ok">>
InvalidAddress(a) == <<"InvalidAddress", a>>
InvalidOpcode(w) == <<"InvalidOpcode", w>>
InvalidKey(k) == <<"InvalidKey", k>>
EmptyStack == <<"EmptyStack">>
InvalidRom == <<"InvalidRom">>
Panic == <<"Panic">>

Ret(v, r) == [vm |-> v, res |-> r]

\* what `vm` holds while there is no engine
NoVm == [ram |-> <<>>]

----------------------------------------------------------------------------
(* u8 bit operations *)

RECURSIVE BitAnd(_, _)
BitAnd(a, b) ==
    IF a = 0 \/ b = 0 THEN 0
    ELSE (a % 2) * (b % 2) + 2 * BitAnd(a \div 2, b \div 2)

RECURSIVE BitOr(_, _)
BitOr(a, b) ==
    IF a = 0 THEN b ELSE IF b = 0 THEN a
    ELSE (IF a % 2 = 1 \/ b % 2 = 1 THEN 1 ELSE 0) + 2 * BitOr(a \div 2, b \div 2)

RECURSIVE BitXor(_, _)
BitXor(a, b) ==
    IF a = 0 THEN b ELSE IF b = 0 THEN a
    ELSE (IF a % 2 # b % 2 THEN 1 ELSE 0) + 2 * BitXor(a \div 2, b \div 2)
Shr(a, n) == a \div (2 ^ n)

----------------------------------------------------------------------------
(* Opcode::try_from (vm/opcode.rs:44-97).  An instruction is a tuple whose  *)
(* first element is the variant's name, followed by its operands.           *)

\* faulty variant: the second and third nibbles are taken in the wrong order
Nibbles_swapped(value) ==
    << Shr(BitAnd(value, 61440), 12),
       Shr(BitAnd(value, 240), 4),
       Shr(BitAnd(value, 3840), 8),
       BitAnd(value, 15) >>

Nibbles(value) ==
    << Shr(BitAnd(value, 61440), 12),
       Shr(BitAnd(value, 3840), 8),
       Shr(BitAnd(value, 240), 4),
       BitAnd(value, 15) >>

\* the `match nibbles` of try_from (vm/opcode.rs:58-95)
match_nibbles(nb, nnn, kk, value) ==
    LET x == nb[2]
        y == nb[3]
        n == nb[4]
    IN  CASE nb[1] = 0 /\ x = 0 /\ y = 14 /\ n = 0 -> <<"ClearScreen">>
          [] nb[1] = 0 /\ x = 0 /\ y = 14 /\ n = 14 -> <<"Ret">>
          [] nb[1] = 0 /\ ~(x = 0 /\ y = 14 /\ n \in {0, 14}) -> <<"NoOp">>
          [] nb[1] = 1 -> <<"Jump", nnn>>
          [] nb[1] = 2 -> <<"Call", nnn>>
          [] nb[1] = 3 -> <<"SkipIfEq", x, kk>>
          [] nb[1] = 4 -> <<"SkipIfNeq", x, kk>>
          [] nb[1] = 5 /\ n = 0 -> <<"SkipEqVxVy", x, y>>
          [] nb[1] = 6 -> <<"LoadVx", x, kk>>
          [] nb[1] = 7 -> <<"AddVx", x, kk>>
          [] nb[1] = 8 /\ n = 0 -> <<"LoadVxVy", x, y>>
          [] nb[1] = 8 /\ n = 1 -> <<"Or", x, y>>
          [] nb[1] = 8 /\ n = 2 -> <<"And", x, y>>
          [] nb[1] = 8 /\ n = 3 -> <<"Xor", x, y>>
          [] nb[1] = 8 /\ n = 4 -> <<"Add", x, y>>
          [] nb[1] = 8 /\ n = 5 -> <<"Sub", x, y>>
          [] nb[1] = 8 /\ n = 6 -> <<"ShiftR", x, y>>
          [] nb[1] = 8 /\ n = 7 -> <<"SubN", x, y>>
          [] nb[1] = 8 /\ n = 14 -> <<"ShiftL", x, y>>
          [] nb[1] = 9 /\ n = 0 -> <<"SkipNeqVxVy", x, y>>
          [] nb[1] = 10 -> <<"LoadI", nnn>>
          [] nb[1] = 11 -> <<"JumpOffset", nnn>>
          [] nb[1] = 12 -> <<"Rand", x, kk>>
          [] nb[1] = 13 -> <<"Display", x, y, n>>
          [] nb[1] = 14 /\ y = 9 /\ n = 14 -> <<"SkipIfKey", x>>
          [] nb[1] = 14 /\ y = 10 /\ n = 1 -> <<"SkipIfNotKey", x>>
          [] nb[1] = 15 /\ y = 0 /\ n = 7 -> <<"LoadDelay", x>>
          [] nb[1] = 15 /\ y = 0 /\ n = 10 -> <<"WaitForKey", x>>
          [] nb[1] = 15 /\ y = 1 /\ n = 5 -> <<"StoreDelay", x>>
          [] nb[1] = 15 /\ y = 1 /\ n = 8 -> <<"StoreSound", x>>
          [] nb[1] = 15 /\ y = 1 /\ n = 14 -> <<"AddI", x>>
          [] nb[1] = 15 /\ y = 2 /\ n = 9 -> <<"LoadDigit", x>>
          [] nb[1] = 15 /\ y = 3 /\ n = 3 -> <<"Bcd", x>>
          [] nb[1] = 15 /\ y = 5 /\ n = 5 -> <<"StoreRegisters", x>>
          [] nb[1] = 15 /\ y = 6 /\ n = 5 -> <<"LoadRegisters", x>>
          [] OTHER -> InvalidOpcode(value)

\* faulty variant: the 0x0 family has no catch-all arm
try_from_strict(value) ==
    IF value < 4096 /\ value \notin {224, 238} THEN InvalidOpcode(value)
    ELSE match_nibbles(Nibbles(value), BitAnd(value, 4095), BitAnd(value, 255), value)

\* faulty variant: the words 0x0nnn decode to an instruction of their own, as
\* on the machines that ran native code at nnn
try_from_with_sys(value) ==
    IF value < 4096 /\ value \notin {224, 238} THEN <<"Sys", BitAnd(value, 4095)>>
    ELSE match_nibbles(Nibbles(value), BitAnd(value, 4095), BitAnd(value, 255), value)

try_from(value) ==
    match_nibbles(Nibbles(value), BitAnd(value, 4095), BitAnd(value, 255), value)

----------------------------------------------------------------------------
(* Vm::load_fonts (vm.rs:159-180) and Vm::new (vm.rs:64-85) *)

numbers ==
    << 240, 144, 144, 144, 240,     \* 0
       32, 96, 32, 32, 112,         \* 1
       240, 16, 240, 128, 240,      \* 2
       240, 16, 240, 16, 240,       \* 3
       144, 144, 240, 16, 16,       \* 4
       240, 128, 240, 16, 16,       \* 5
       240, 128, 240, 144, 240,     \* 6
       240, 16, 32, 64, 64,         \* 7
       240, 144, 240, 144, 240,     \* 8
       240, 144, 240, 16, 240,      \* 9
       240, 144, 240, 144, 144,     \* A
       224, 144, 224, 144, 224,     \* B
       240, 128, 128, 128, 240,     \* C
       224, 144, 144, 144, 224,     \* D
       240, 128, 240, 128, 240,     \* E
       240, 128, 240, 128, 128 >>   \* F

\* The array held as the function of its non-zero bytes: reading and writing
\* index a < MEM_SIZE, and the array whose byte at a is byte[a]
Byte(ram, a) == IF a \in DOMAIN ram THEN ram[a] ELSE 0

SetByte(ram, a, b) ==
    IF b = 0 THEN [c \in DOMAIN ram \ {a} |-> ram[c]]
    ELSE [c \in DOMAIN ram \cup {a} |-> IF c = a THEN b ELSE ram[c]]

\* ram[start..start + Len(bytes)].copy_from_slice(bytes), the range in bounds
CopyFromSlice(ram, start, bytes) ==
    LET range == start..(start + Len(bytes) - 1)
        kept == DOMAIN ram \ range
        set == {a \in range : bytes[a - start + 1] # 0}
    IN  [a \in kept \cup set |-> IF a \in set THEN bytes[a - start + 1] ELSE ram[a]]

\* [0; 4096]
ZeroArray == [a \in {} |-> 0]

\* faulty variant: the font table is never written
load_fonts_skipped(v) == v

load_fonts(v) == [v EXCEPT !.ram = CopyFromSlice(v.ram, 0, numbers)]

\* memory[0x200..0x200 + rom.len()] panics when the range ends past the array
VmNew(rom) ==
    IF ROM_START + Len(rom) > MEM_SIZE
    THEN Ret(NoVm, Panic)
    ELSE Ret(load_fonts(
                [ram |-> CopyFromSlice(ZeroArray, ROM_START, rom),
                 pc |-> ROM_START,
                 i_register |-> 0,
                 delay |-> 0,
                 sound |-> 0,
                 v_registers |-> [r \in 0..(NUM_REGS - 1) |-> 0],
                 stack |-> <<>>,
                 display |-> {},
                 keys |-> [k \in 0..(NUM_KEYS - 1) |-> FALSE],
                 is_waiting |-> FALSE,
                 vx_after_wait |-> 0]), Ok)

\* load_rom (lib.rs:151-160)
load_rom(rom) ==
    IF Len(rom) > LOAD_ROM_LIMIT
    THEN Ret(NoVm, InvalidRom)
    ELSE VmNew(rom)

----------------------------------------------------------------------------
(* Vm::set_key (vm.rs:87-98) and Vm::tick_timers (vm.rs:100-103) *)

\* faulty variant: a key release resolves the wait as a key press does
set_key_any_edge(v, key, value) ==
    IF key < NUM_KEYS
    THEN LET v1 == [v EXCEPT !.keys[key] = value]
         IN  IF v.is_waiting
             THEN Ret([v1 EXCEPT !.is_waiting = FALSE,
                                 !.v_registers[v.vx_after_wait] = key], Ok)
             ELSE Ret(v1, Ok)
    ELSE Ret(v, InvalidKey(key))

\* faulty variant: the key index is reduced to its low nibble instead of checked
set_key_masked(v, key, value) ==
    LET k == key % NUM_KEYS
        v1 == [v EXCEPT !.keys[k] = value]
    IN  IF value /\ v.is_waiting
        THEN Ret([v1 EXCEPT !.is_waiting = FALSE,
                            !.v_registers[v.vx_after_wait] = k], Ok)
        ELSE Ret(v1, Ok)

set_key(v, key, value) ==
    IF key < NUM_KEYS
    THEN LET v1 == [v EXCEPT !.keys[key] = value]
         IN  IF value /\ v.is_waiting
             THEN Ret([v1 EXCEPT !.is_waiting = FALSE,
                                 !.v_registers[v.vx_after_wait] = key], Ok)
             ELSE Ret(v1, Ok)
    ELSE Ret(v, InvalidKey(key))

\* faulty variant: the subtraction wraps
saturating_sub_wrapping(a, b) == (a - b + U8) % U8

saturating_sub(a, b) == IF a - b < 0 THEN 0 ELSE a - b

tick_timers(v) ==
    [v EXCEPT !.delay = saturating_sub(v.delay, 1),
              !.sound = saturating_sub(v.sound, 1)]

----------------------------------------------------------------------------
(* Integer arithmetic of the build: `a + b` on an unsigned type of modulus  *)
(* m panics on overflow when overflow checks are on (-1 stands for the      *)
(* panic) and wraps when they are off.                                      *)

add(a, b, m, oc) ==
    IF a + b >= m THEN (IF oc THEN -1 ELSE (a + b) % m) ELSE a + b

wrapping_add(a, b) == (a + b) % U8
wrapping_sub(a, b) == (a - b + U8) % U8

IsOk(r) == r.res[1] = "Ok"

----------------------------------------------------------------------------
(* Fetch: Vm::read_byte (vm.rs:190-198), Vm::next_opcode (vm.rs:182-188).   *)
(* A successful read returns <<"Ok", byte>>.                                *)

read_byte(v, oc) ==
    LET res == IF v.pc < MEM_SIZE THEN <<"Ok", Byte(v.ram, v.pc)>>
                                  ELSE InvalidAddress(v.pc)
        next == add(v.pc, 1, U16, oc)
    IN  IF next < 0 THEN Ret(v, Panic)
        ELSE Ret([v EXCEPT !.pc = next], res)

next_opcode(v, oc) ==
    LET hi == read_byte(v, oc)
    IN  IF ~IsOk(hi) THEN hi
        ELSE LET lo == read_byte(hi.vm, oc)
             IN  IF ~IsOk(lo) THEN lo
                 ELSE Ret(lo.vm, <<"Ok", hi.res[2] * 256 + lo.res[2]>>)

\* Vm::write_byte_at (vm.rs:200-209), Vm::read_byte_at (vm.rs:211-217)
write_byte_at(v, addr, value) ==
    IF addr < MEM_SIZE THEN Ret([v EXCEPT !.ram = SetByte(v.ram, addr, value)], Ok)
    ELSE Ret(v, InvalidAddress(addr))

read_byte_at(v, addr) ==
    IF addr < MEM_SIZE THEN Ret(v, <<"Ok", Byte(v.ram, addr)>>)
    ELSE Ret(v, InvalidAddress(addr))

----------------------------------------------------------------------------
(* The instruction handlers (vm.rs:219-490) *)

exec_clear_screen(v) ==
    Ret([v EXCEPT !.display = {}], Ok)

exec_jump_absolute(v, addr) == Ret([v EXCEPT !.pc = addr], Ok)

exec_load_vx(v, x, value) == Ret([v EXCEPT !.v_registers[x] = value], Ok)

exec_add_vx(v, x, value) ==
    Ret([v EXCEPT !.v_registers[x] = wrapping_add(v.v_registers[x], value)], Ok)

exec_load_i(v, addr) == Ret([v EXCEPT !.i_register = addr], Ok)

\* faulty variant: a set sprite bit lights the cell instead of toggling it
put_pixel_or(v, x, y) ==
    LET i == (y % DISPLAY_HEIGHT) * DISPLAY_WIDTH + (x % DISPLAY_WIDTH)
    IN  [vm |-> [v EXCEPT !.display = v.display \cup {i}],
         erased |-> i \in v.display]

\* Vm::put_pixel (vm.rs:270-280): the engine after the toggle, and `erased`
put_pixel(v, x, y) ==
    LET i == (y % DISPLAY_HEIGHT) * DISPLAY_WIDTH + (x % DISPLAY_WIDTH)
        erased == i \in v.display
    IN  [vm |-> [v EXCEPT !.display = IF erased THEN v.display \ {i}
                                     ELSE v.display \cup {i}],
         erased |-> erased]

\* The inner loop of exec_display, `for col in 0..8`, from column col on
RECURSIVE draw_cols(_, _, _, _, _, _)
draw_cols(v, row, col, sprite_x, sprite_y, oc) ==
    IF col >= 8 THEN Ret(v, Ok)
    ELSE LET pixel == BitAnd(Byte(v.ram, v.i_register + row), Shr(128, col)) # 0
             x == add(sprite_x, col, U8, oc)
             y == add(sprite_y, row, U8, oc)
         IN  IF ~pixel THEN draw_cols(v, row, col + 1, sprite_x, sprite_y, oc)
             ELSE IF x < 0 \/ y < 0 THEN Ret(v, Panic)
             ELSE LET p == put_pixel(v, x, y)
                  IN  draw_cols(IF p.erased THEN [p.vm EXCEPT !.v_registers[15] = 1]
                                            ELSE p.vm,
                                row, col + 1, sprite_x, sprite_y, oc)

\* The outer loop of exec_display, `for row in 0..rows`, from row on
RECURSIVE draw_rows(_, _, _, _, _, _)
draw_rows(v, row, rows, sprite_x, sprite_y, oc) ==
    IF row >= rows THEN Ret(v, Ok)
    ELSE LET r == draw_cols(v, row, 0, sprite_x, sprite_y, oc)
         IN  IF r.res # Ok THEN r
             ELSE draw_rows(r.vm, row + 1, rows, sprite_x, sprite_y, oc)

\* faulty variant: the coordinates are read before VF is cleared
exec_display_reading_first(v, vx, vy, rows, oc) ==
    LET v0 == [v EXCEPT !.v_registers[15] = 0]
        sprite_x == v.v_registers[vx]
        sprite_y == v.v_registers[vy]
        addr == v0.i_register
    IN  IF addr + rows > MEM_SIZE THEN Ret(v0, Panic)
        ELSE draw_rows(v0, 0, rows, sprite_x, sprite_y, oc)

\* Vm::exec_display (vm.rs:244-268); self.ram[addr..addr + rows] panics when
\* the range ends past the array
exec_display(v, vx, vy, rows, oc) ==
    LET v0 == [v EXCEPT !.v_registers[15] = 0]
        sprite_x == v0.v_registers[vx]
        sprite_y == v0.v_registers[vy]
        addr == v0.i_register
    IN  IF addr + rows > MEM_SIZE THEN Ret(v0, Panic)
        ELSE draw_rows(v0, 0, rows, sprite_x, sprite_y, oc)

\* faulty variant: the next instruction is skipped whatever the condition
skip_if_always(v, cond) ==
    Ret([v EXCEPT !.pc = v.pc + 2], Ok)

skip_if(v, cond) ==
    IF cond THEN Ret([v EXCEPT !.pc = v.pc + 2], Ok) ELSE Ret(v, Ok)

exec_skip_if_equal(v, vx, value) == skip_if(v, v.v_registers[vx] = value)

exec_skip_if_not_equal(v, vx, value) == skip_if(v, v.v_registers[vx] # value)

exec_skip_if_equal_vx_vy(v, vx, vy) ==
    skip_if(v, v.v_registers[vx] = v.v_registers[vy])

exec_skip_if_not_equal_vx_vy(v, vx, vy) ==
    skip_if(v, v.v_registers[vx] # v.v_registers[vy])

exec_load_vx_vy(v, vx, vy) ==
    Ret([v EXCEPT !.v_registers[vx] = v.v_registers[vy]], Ok)

exec_or_vx_vy(v, vx, vy) ==
    Ret([v EXCEPT !.v_registers[vx] = BitOr(v.v_registers[vx], v.v_registers[vy])], Ok)

exec_and_vx_vy(v, vx, vy) ==
    Ret([v EXCEPT !.v_registers[vx] = BitAnd(v.v_registers[vx], v.v_registers[vy])], Ok)

exec_xor_vx_vy(v, vx, vy) ==
    Ret([v EXCEPT !.v_registers[vx] = BitXor(v.v_registers[vx], v.v_registers[vy])], Ok)

\* faulty variant: the flag is written first, the arithmetic result after it
write_vf_then_vx(v, vx, value, flag) ==
    LET v1 == [v EXCEPT !.v_registers[15] = flag]
    IN  Ret([v1 EXCEPT !.v_registers[vx] = value], Ok)

\* the arithmetic result is written first, the flag after it
write_vx_then_vf(v, vx, value, flag) ==
    LET v1 == [v EXCEPT !.v_registers[vx] = value]
    IN  Ret([v1 EXCEPT !.v_registers[15] = flag], Ok)

\* faulty variant: the carry is taken one too late
exec_add_vx_vy_late_carry(v, vx, vy) ==
    LET sum == v.v_registers[vx] + v.v_registers[vy]
    IN  write_vx_then_vf(v, vx, sum % U8, IF sum > U8 THEN 1 ELSE 0)

exec_add_vx_vy(v, vx, vy) ==
    LET sum == v.v_registers[vx] + v.v_registers[vy]
    IN  write_vx_then_vf(v, vx, sum % U8, IF sum >= U8 THEN 1 ELSE 0)

\* faulty variant: equal operands count as a borrow
exec_sub_vx_vy_strict(v, vx, vy) ==
    LET a == v.v_registers[vx]
        b == v.v_registers[vy]
    IN  write_vx_then_vf(v, vx, wrapping_sub(a, b), IF a <= b THEN 0 ELSE 1)

exec_sub_vx_vy(v, vx, vy) ==
    LET a == v.v_registers[vx]
        b == v.v_registers[vy]
    IN  write_vx_then_vf(v, vx, wrapping_sub(a, b), IF a < b THEN 0 ELSE 1)

\* faulty variant: the shift takes its operand from Vx
exec_shift_right_in_place(v, vx, vy) ==
    LET x == v.v_registers[vx]
    IN  write_vx_then_vf(v, vx, Shr(x, 1), BitAnd(x, 1))

exec_shift_right(v, vx, vy) ==
    LET y == v.v_registers[vy]
    IN  write_vx_then_vf(v, vx, Shr(y, 1), BitAnd(y, 1))

exec_subn_vy_vx(v, vx, vy) ==
    LET a == v.v_registers[vy]
        b == v.v_registers[vx]
    IN  write_vx_then_vf(v, vx, wrapping_sub(a, b), IF a < b THEN 0 ELSE 1)

exec_shift_left(v, vx, vy) ==
    LET y == v.v_registers[vy]
    IN  write_vx_then_vf(v, vx, (y * 2) % U8, Shr(BitAnd(y, 128), 7))

\* faulty variant: the target is reduced to 12 bits
exec_jump_offset_masked(v, addr, oc) ==
    Ret([v EXCEPT !.pc = (addr + v.v_registers[0]) % MEM_SIZE], Ok)

exec_jump_offset(v, addr, oc) ==
    LET target == add(addr, v.v_registers[0], U16, oc)
    IN  IF target < 0 THEN Ret(v, Panic) ELSE Ret([v EXCEPT !.pc = target], Ok)

\* faulty variant: the random byte is stored without the mask
exec_rand_unmasked(v, vx, value, rnd) ==
    Ret([v EXCEPT !.v_registers[vx] = rnd], Ok)

\* rnd is the byte the injected `randomize` returns
exec_rand(v, vx, value, rnd) ==
    Ret([v EXCEPT !.v_registers[vx] = BitAnd(rnd, value)], Ok)

\* faulty variant: the key index is reduced to its low nibble instead of checked
get_vx_key_masked(v, vx) ==
    Ret(v, <<"Ok", v.keys[v.v_registers[vx] % NUM_KEYS]>>)

\* Vm::get_vx_key (vm.rs:405-412)
get_vx_key(v, vx) ==
    LET key == v.v_registers[vx]
    IN  IF key < NUM_KEYS THEN Ret(v, <<"Ok", v.keys[key]>>)
        ELSE Ret(v, InvalidKey(key))

exec_skip_if_key(v, vx) ==
    LET state == get_vx_key(v, vx)
    IN  IF ~IsOk(state) THEN state ELSE skip_if(v, state.res[2])

exec_skip_if_not_key(v, vx) ==
    LET state == get_vx_key(v, vx)
    IN  IF ~IsOk(state) THEN state ELSE skip_if(v, ~state.res[2])

\* faulty variant: a key that is already down satisfies the wait at once
exec_wait_for_key_polling(v, vx) ==
    IF \E k \in DOMAIN v.keys : v.keys[k]
    THEN Ret([v EXCEPT !.v_registers[vx] = CHOOSE k \in DOMAIN v.keys : v.keys[k]], Ok)
    ELSE Ret([v EXCEPT !.vx_after_wait = vx, !.is_waiting = TRUE], Ok)

exec_wait_for_key(v, vx) ==
    Ret([v EXCEPT !.vx_after_wait = vx, !.is_waiting = TRUE], Ok)

exec_load_delay(v, vx) == Ret([v EXCEPT !.v_registers[vx] = v.delay], Ok)

exec_store_delay(v, vx) == Ret([v EXCEPT !.delay = v.v_registers[vx]], Ok)

exec_store_sound(v, vx) == Ret([v EXCEPT !.sound = v.v_registers[vx]], Ok)

\* faulty variant: the loop runs over 0..vx without vx
RECURSIVE store_from_exclusive(_, _, _, _)
store_from_exclusive(v, i, vx, oc) ==
    IF i >= vx THEN Ret(v, Ok)
    ELSE LET w == write_byte_at(v, v.i_register, v.v_registers[i])
             next == add(v.i_register, 1, U16, oc)
         IN  IF w.res # Ok THEN w
             ELSE IF next < 0 THEN Ret(w.vm, Panic)
             ELSE store_from_exclusive([w.vm EXCEPT !.i_register = next],
                                       i + 1, vx, oc)

\* the loop of exec_store_registers from register i on
RECURSIVE store_from(_, _, _, _)
store_from(v, i, vx, oc) ==
    IF i > vx THEN Ret(v, Ok)
    ELSE LET w == write_byte_at(v, v.i_register, v.v_registers[i])
             next == add(v.i_register, 1, U16, oc)
         IN  IF w.res # Ok THEN w
             ELSE IF next < 0 THEN Ret(w.vm, Panic)
             ELSE store_from([w.vm EXCEPT !.i_register = next], i + 1, vx, oc)

\* faulty variant: the whole block is checked before the first byte is written
exec_store_registers_atomic(v, vx, oc) ==
    IF v.i_register + vx >= MEM_SIZE
    THEN Ret(v, InvalidAddress(IF v.i_register >= MEM_SIZE THEN v.i_register
                               ELSE MEM_SIZE))
    ELSE store_from(v, 0, vx, oc)

exec_store_registers(v, vx, oc) == store_from(v, 0, vx, oc)

\* the loop of exec_load_registers from register i on
RECURSIVE load_from(_, _, _, _)
load_from(v, i, vx, oc) ==
    IF i > vx THEN Ret(v, Ok)
    ELSE LET r == read_byte_at(v, v.i_register)
             next == add(v.i_register, 1, U16, oc)
         IN  IF ~IsOk(r) THEN r
             ELSE IF next < 0 THEN Ret([v EXCEPT !.v_registers[i] = r.res[2]], Panic)
             ELSE load_from([v EXCEPT !.v_registers[i] = r.res[2],
                                      !.i_register = next], i + 1, vx, oc)

exec_load_registers(v, vx, oc) == load_from(v, 0, vx, oc)

\* faulty variant: the address of the call instruction itself is pushed
exec_call_at_site(v, addr) ==
    Ret([v EXCEPT !.stack = Append(v.stack, v.pc - 2), !.pc = addr], Ok)

exec_call(v, addr) ==
    Ret([v EXCEPT !.stack = Append(v.stack, v.pc), !.pc = addr], Ok)

\* faulty variant: a return with no frame still writes pc
exec_return_to_zero(v) ==
    IF v.stack = <<>> THEN Ret([v EXCEPT !.pc = 0], EmptyStack)
    ELSE Ret([v EXCEPT !.pc = v.stack[Len(v.stack)],
                       !.stack = SubSeq(v.stack, 1, Len(v.stack) - 1)], Ok)

exec_return(v) ==
    IF v.stack = <<>> THEN Ret(v, EmptyStack)
    ELSE Ret([v EXCEPT !.pc = v.stack[Len(v.stack)],
                       !.stack = SubSeq(v.stack, 1, Len(v.stack) - 1)], Ok)

exec_add_i(v, vx, oc) ==
    LET sum == add(v.i_register, v.v_registers[vx], U16, oc)
    IN  IF sum < 0 THEN Ret(v, Panic) ELSE Ret([v EXCEPT !.i_register = sum], Ok)

exec_bcd(v, vx, oc) ==
    LET value == v.v_registers[vx]
        hundreds == value \div 100
        rest == value - hundreds * 100
        tens == rest \div 10
        ones == rest - tens * 10
        w1 == write_byte_at(v, v.i_register, hundreds)
        a2 == add(v.i_register, 1, U16, oc)
        w2 == write_byte_at(w1.vm, a2, tens)
        a3 == add(v.i_register, 2, U16, oc)
        w3 == write_byte_at(w2.vm, a3, ones)
    IN  IF w1.res # Ok THEN w1
        ELSE IF a2 < 0 THEN Ret(w1.vm, Panic)
        ELSE IF w2.res # Ok THEN w2
        ELSE IF a3 < 0 THEN Ret(w2.vm, Panic)
        ELSE w3

exec_load_digit(v, vx) ==
    LET nibble == BitAnd(v.v_registers[vx], 15)
    IN  Ret([v EXCEPT !.i_register = nibble * 5], Ok)

----------------------------------------------------------------------------
(* Vm::tick (vm.rs:109-157).  Besides the engine and the returned value,    *)
(* the outcome of the decode, <<"none">> when the step decoded nothing.     *)

dispatch(v, op, oc, rnd) ==
    CASE op[1] = "ClearScreen" -> exec_clear_screen(v)
      [] op[1] = "Ret" -> exec_return(v)
      [] op[1] = "Jump" -> exec_jump_absolute(v, op[2])
      [] op[1] = "Call" -> exec_call(v, op[2])
      [] op[1] = "LoadVx" -> exec_load_vx(v, op[2], op[3])
      [] op[1] = "SkipIfEq" -> exec_skip_if_equal(v, op[2], op[3])
      [] op[1] = "SkipIfNeq" -> exec_skip_if_not_equal(v, op[2], op[3])
      [] op[1] = "SkipEqVxVy" -> exec_skip_if_equal_vx_vy(v, op[2], op[3])
      [] op[1] = "AddVx" -> exec_add_vx(v, op[2], op[3])
      [] op[1] = "LoadVxVy" -> exec_load_vx_vy(v, op[2], op[3])
      [] op[1] = "Or" -> exec_or_vx_vy(v, op[2], op[3])
      [] op[1] = "And" -> exec_and_vx_vy(v, op[2], op[3])
      [] op[1] = "Xor" -> exec_xor_vx_vy(v, op[2], op[3])
      [] op[1] = "Add" -> exec_add_vx_vy(v, op[2], op[3])
      [] op[1] = "Sub" -> exec_sub_vx_vy(v, op[2], op[3])
      [] op[1] = "ShiftR" -> exec_shift_right(v, op[2], op[3])
      [] op[1] = "SubN" -> exec_subn_vy_vx(v, op[2], op[3])
      [] op[1] = "ShiftL" -> exec_shift_left(v, op[2], op[3])
      [] op[1] = "SkipNeqVxVy" -> exec_skip_if_not_equal_vx_vy(v, op[2], op[3])
      [] op[1] = "LoadI" -> exec_load_i(v, op[2])
      [] op[1] = "JumpOffset" -> exec_jump_offset(v, op[2], oc)
      [] op[1] = "Rand" -> exec_rand(v, op[2], op[3], rnd)
      [] op[1] = "Display" -> exec_display(v, op[2], op[3], op[4], oc)
      [] op[1] = "SkipIfKey" -> exec_skip_if_key(v, op[2])
      [] op[1] = "SkipIfNotKey" -> exec_skip_if_not_key(v, op[2])
      [] op[1] = "LoadDelay" -> exec_load_delay(v, op[2])
      [] op[1] = "WaitForKey" -> exec_wait_for_key(v, op[2])
      [] op[1] = "StoreDelay" -> exec_store_delay(v, op[2])
      [] op[1] = "StoreSound" -> exec_store_sound(v, op[2])
      [] op[1] = "AddI" -> exec_add_i(v, op[2], oc)
      [] op[1] = "LoadDigit" -> exec_load_digit(v, op[2])
      [] op[1] = "Bcd" -> exec_bcd(v, op[2], oc)
      [] op[1] = "StoreRegisters" -> exec_store_registers(v, op[2], oc)
      [] op[1] = "LoadRegisters" -> exec_load_registers(v, op[2], oc)
      [] op[1] = "NoOp" -> Ret(v, Ok)
      [] OTHER -> Ret(v, Panic)          \* _ => todo!()

NoOpcode == <<"none">>

\* tick from the fetch on (vm.rs:114-156)
\* faulty variant: a word that does not decode is not consumed
fetch_and_execute_rewinding(v, oc, rnd) ==
    LET raw_opcode == next_opcode(v, oc)
    IN  IF ~IsOk(raw_opcode)
        THEN [vm |-> raw_opcode.vm, res |-> raw_opcode.res, opcode |-> NoOpcode]
        ELSE LET op == try_from(raw_opcode.res[2])
             IN  IF op[1] = "InvalidOpcode"
                 THEN [vm |-> v, res |-> op, opcode |-> op]
                 ELSE LET r == dispatch(raw_opcode.vm, op, oc, rnd)
                      IN  [vm |-> r.vm, res |-> r.res, opcode |-> op]

fetch_and_execute(v, oc, rnd) ==
    LET raw_opcode == next_opcode(v, oc)
    IN  IF ~IsOk(raw_opcode)
        THEN [vm |-> raw_opcode.vm, res |-> raw_opcode.res, opcode |-> NoOpcode]
        ELSE LET op == try_from(raw_opcode.res[2])
             IN  IF op[1] = "InvalidOpcode"
                 THEN [vm |-> raw_opcode.vm, res |-> op, opcode |-> op]
                 ELSE LET r == dispatch(raw_opcode.vm, op, oc, rnd)
                      IN  [vm |-> r.vm, res |-> r.res, opcode |-> op]

\* faulty variant: the wait flag is not checked
tick_while_waiting(v, oc, rnd) == fetch_and_execute(v, oc, rnd)

\* faulty variant: every executed instruction also counts the timers down
tick_counting_down(v, oc, rnd) ==
    IF v.is_waiting THEN [vm |-> v, res |-> Ok, opcode |-> NoOpcode]
    ELSE LET r == fetch_and_execute(v, oc, rnd)
         IN  [r EXCEPT !.vm = tick_timers(r.vm)]

tick(v, oc, rnd) ==
    IF v.is_waiting THEN [vm |-> v, res |-> Ok, opcode |-> NoOpcode]
    ELSE fetch_and_execute(v, oc, rnd)

----------------------------------------------------------------------------
(* Program images the host loads *)

\* the bytes of a sequence of big-endian instruction words
RECURSIVE Bytes(_)
Bytes(words) ==
    IF words = <<>> THEN <<>>
    ELSE <<words[1] \div 256, words[1] % 256>> \o Bytes(Tail(words))

\* an image of n zero bytes
Zeros(n) == [j \in 1..n |-> 0]

\* W(8, x, y, 4) is the word 0x8xy4
W(a, b, c, d) == a * 4096 + b * 256 + c * 16 + d

Programs ==
    { \* wait for a key into VB, count the presses in V1, wait again
      <<W(15, 11, 0, 10), W(7, 1, 0, 1), W(1, 2, 0, 0)>>,
      \* load and store both timers, read delay back, wait into VF
      <<W(6, 0, 0, 3), W(6, 1, 0, 2), W(15, 0, 1, 5), W(15, 1, 1, 8),
        W(15, 2, 0, 7), W(15, 15, 0, 10)>>,
      \* 0x0 family: no-ops, then clear screen and a return with no frame
      <<W(0, 0, 0, 0), W(0, 10, 11, 12), W(0, 0, 14, 1), W(0, 0, 14, 0),
        W(0, 0, 14, 14), W(0, 1, 14, 14)>>,
      \* words no pattern matches, an instruction after them
      <<W(5, 10, 11, 1), W(8, 10, 11, 8), W(14, 0, 0, 0), W(15, 0, 0, 0),
        W(6, 3, 7, 7), W(9, 0, 0, 15)>>,
      \* jump to the last byte of memory and fetch from there
      <<W(1, 15, 15, 15)>> }

RomLens == {0, 3584, 3585, 3896, 3897, 4096}

Roms == {Bytes(p) : p \in Programs} \cup {Zeros(n) : n \in RomLens}

KeyInputs == {10, 15, 16, 255}

RandBytes == {0, 165, 255}

----------------------------------------------------------------------------
(* The host's calls *)

Init ==
    /\ emu = "none"
    /\ vm = NoVm
    /\ call = <<"none">>
    /\ result = <<"none">>
    /\ opcode = NoOpcode
    /\ overflow_checks = "unknown"
    /\ ticks = 0
    /\ timer_run = 0
    /\ display_before = {}

\* loadRom(rom): lib.rs:151-160
LoadRom(rom) ==
    /\ emu = "none"
    /\ LET r == load_rom(rom)
       IN  /\ emu' = (IF r.res = Ok THEN "ready"
                      ELSE IF r.res = Panic THEN "aborted" ELSE "none")
           /\ vm' = r.vm
           /\ result' = r.res
    /\ call' = <<"load_rom", rom>>
    /\ UNCHANGED <<opcode, overflow_checks, ticks, timer_run, display_before>>

StoresTimer(op) == op[1] \in {"StoreDelay", "StoreSound"}

\* The ways a step can end, with what each shows of the build: both builds
\* are possible until an overflow has made them differ.
StepOutcomes(v, known, rnd) ==
    LET on == tick(v, TRUE, rnd)
        off == tick(v, FALSE, rnd)
    IN  IF known = "on" THEN {[r |-> on, build |-> "on"]}
        ELSE IF known = "off" THEN {[r |-> off, build |-> "off"]}
        ELSE IF on = off THEN {[r |-> on, build |-> "unknown"]}
        ELSE {[r |-> on, build |-> "on"], [r |-> off, build |-> "off"]}

\* vm.tick(), at most `limit` times; rands holds the bytes `randomize` may
\* return if the step calls it
Step(rands, limit) ==
    /\ emu = "ready"
    /\ ticks < limit
    /\ \E rnd \in rands :
          \E o \in StepOutcomes(vm, overflow_checks, rnd) :
              /\ vm' = o.r.vm
              /\ result' = o.r.res
              /\ opcode' = o.r.opcode
              /\ emu' = (IF o.r.res = Panic THEN "aborted" ELSE emu)
              /\ timer_run' = (IF StoresTimer(o.r.opcode) THEN 0 ELSE timer_run)
              /\ display_before' = (IF o.r.opcode[1] = "Display" THEN vm.display
                                    ELSE display_before)
              /\ overflow_checks' = o.build
    /\ call' = <<"tick">>
    /\ ticks' = ticks + 1

Tick(rands) == Step(rands, MaxTicks)

\* vm.tick_timers(), at most `limit` times between two store-timer instructions
TickTimers(limit) ==
    /\ emu = "ready"
    /\ timer_run < limit
    /\ vm' = tick_timers(vm)
    /\ call' = <<"tick_timers">>
    /\ result' = Ok
    /\ timer_run' = timer_run + 1
    /\ UNCHANGED <<emu, opcode, overflow_checks, ticks, display_before>>

\* vm.set_key(key, value)
SetKey(key, value) ==
    /\ emu = "ready"
    /\ LET r == set_key(vm, key, value)
       IN  /\ vm' = r.vm
           /\ result' = r.res
    /\ call' = <<"set_key", key, value>>
    /\ UNCHANGED <<emu, opcode, overflow_checks, ticks, timer_run, display_before>>

Next ==
    \/ emu = "none" /\ \E rom \in Roms : LoadRom(rom)
    \/ Tick(RandBytes)
    \/ TickTimers(MaxTimerRun)
    \/ \E key \in KeyInputs, value \in BOOLEAN : SetKey(key, value)

Spec == Init /\ [][Next]_vars

----------------------------------------------------------------------------
(* One step over every instruction word: the host loads the two-byte image  *)
(* of a word and steps once.                                                *)

WordRom(w) == <<w \div 256, w % 256>>

Words == 0..(U16 - 1)

\* the first step after the load, `randomize` being the tests' || 0x00
FirstTick == call[1] = "load_rom" /\ Tick({0})

NextWord ==
    \/ emu = "none" /\ \E w \in Words : LoadRom(WordRom(w))
    \/ FirstTick

SpecWord == Init /\ [][NextWord]_vars

----------------------------------------------------------------------------
(* Long runs of timer ticks: programs that store 255 into a timer, no key   *)
(* events, and up to MaxRun timer ticks after a store.                      *)

TimerPrograms ==
    { \* sound := 2, delay := 255, then wait for a key into V5
      <<W(6, 0, 15, 15), W(6, 1, 0, 2), W(15, 1, 1, 8), W(15, 0, 1, 5),
        W(15, 5, 0, 10)>>,
      \* delay := 1, sound := 255, then spin
      <<W(6, 0, 15, 15), W(6, 1, 0, 1), W(15, 1, 1, 5), W(15, 0, 1, 8),
        W(1, 2, 0, 8)>> }

NextTimers ==
    \/ emu = "none" /\ \E p \in TimerPrograms : LoadRom(Bytes(p))
    \/ Tick(RandBytes)
    \/ TickTimers(MaxRun)

SpecTimers == Init /\ [][NextTimers]_vars

----------------------------------------------------------------------------
(* Subroutines: programs that call and return, run for up to MaxCallTicks   *)
(* steps.                                                                   *)

CallPrograms ==
    { \* main calls A twice, A calls B, both return
      <<W(2, 2, 0, 6), W(2, 2, 0, 6), W(0, 0, 14, 14),
        W(2, 2, 0, 10), W(0, 0, 14, 14), W(0, 0, 14, 14)>>,
      \* recursion 17 frames deep counted in V0, then every frame returns
      <<W(7, 0, 0, 1), W(3, 0, 1, 2), W(2, 2, 0, 0), W(0, 0, 14, 14)>>,
      \* recursion that never returns
      <<W(2, 2, 0, 0)>> }

NextCalls ==
    \/ emu = "none" /\ \E p \in CallPrograms : LoadRom(Bytes(p))
    \/ Step(RandBytes, MaxCallTicks)
    \/ TickTimers(MaxTimerRun)

SpecCalls == Init /\ [][NextCalls]_vars

----------------------------------------------------------------------------
(* Register arithmetic: programs that load two registers and apply one      *)
(* 8xyN instruction to them.                                                *)

\* register values: the ends of the range, both sides of bit 7, alternating
\* bit patterns and a few values with nothing special about them
AluValues == {0, 1, 2, 3, 16, 37, 85, 100, 127, 128, 129, 170, 200, 219, 254, 255}

\* the low nibbles of add, sub, shift right, subn, shift left
AluOps == {4, 5, 6, 7, 14}

\* <<x, y>>: distinct registers, the same register, VF as y, VF as x, VF as both
AluPairs == {<<1, 2>>, <<3, 3>>, <<1, 15>>, <<15, 2>>, <<15, 15>>}

AluProgram(x, y, a, b, n) ==
    <<W(6, x, a \div 16, a % 16), W(6, y, b \div 16, b % 16), W(8, x, y, n)>>

AluPrograms ==
    {AluProgram(p[1], p[2], a, b, n) :
        p \in AluPairs, a \in AluValues, b \in AluValues, n \in AluOps}

NextAlu ==
    \/ emu = "none" /\ \E p \in AluPrograms : LoadRom(Bytes(p))
    \/ Step({0}, MaxAluTicks)

SpecAlu == Init /\ [][NextAlu]_vars

----------------------------------------------------------------------------
(* Drawing: programs that put coordinates in V0 and V1, point i at sprite   *)
(* bytes stored behind the code and draw the sprite twice, on a blank       *)
(* display or over a first copy of the sprite drawn at (V2, V3) = (0, 0).   *)

\* horizontal and vertical coordinates: inside the display, at and past its
\* edges, and where the u8 sum with a column or row index passes 255
DrawXs == {0, 1, 60, 63, 64, 200, 248, 249, 255}
DrawYs == {0, 31, 32, 100, 240, 241, 255}

\* no rows, a row with no set bit, the sprites of the tests opcode_display_with_wrap
\* and opcode_display, and a sprite of 15 rows
Sprites ==
    { <<>>, <<0>>, <<255, 255>>, <<255, 129, 129, 255>>,
      <<129, 66, 36, 24, 24, 36, 66, 129, 255, 1, 128, 170, 85, 16, 8>> }

DrawProgram(a, b, sprite, overlay) ==
    LET n == Len(sprite)
        first == IF overlay THEN <<W(13, 2, 3, n)>> ELSE <<>>
        addr == ROM_START + 2 * (5 + Len(first))
    IN  Bytes(<<W(6, 0, a \div 16, a % 16), W(6, 1, b \div 16, b % 16),
                W(10, addr \div 256, (addr \div 16) % 16, addr % 16)>>
              \o first \o <<W(13, 0, 1, n), W(13, 0, 1, n)>>)
        \o sprite

\* draws whose sprite bytes end at, and one past, the last byte of memory
EdgeDrawPrograms ==
    { <<W(10, 15, 15, 14), W(13, 0, 0, 2)>>,
      <<W(10, 15, 15, 15), W(13, 0, 0, 2)>> }

DrawRoms ==
    {DrawProgram(a, b, sprite, overlay) :
        a \in DrawXs, b \in DrawYs, sprite \in Sprites, overlay \in BOOLEAN}
    \cup {Bytes(p) : p \in EdgeDrawPrograms}

NextDraw ==
    \/ emu = "none" /\ \E rom \in DrawRoms : LoadRom(rom)
    \/ Step({0}, MaxDrawTicks)

SpecDraw == Init /\ [][NextDraw]_vars

----------------------------------------------------------------------------
(* Key tests: programs that put a key index in V3 and test that key, while  *)
(* the host presses and releases keys.                                      *)

\* key indices held in V3: the first and last key, a key the host presses,
\* the first index that is no key, and the largest byte
KeyIndices == {0, 10, 15, 16, 255}

KeyPrograms ==
    { <<W(6, 3, k \div 16, k % 16), W(14, 3, low \div 16, low % 16)>> :
         k \in KeyIndices, low \in {158, 161} }

NextKeys ==
    \/ emu = "none" /\ \E p \in KeyPrograms : LoadRom(Bytes(p))
    \/ Step({0}, MaxKeyTicks)
    \/ \E key \in KeyInputs, value \in BOOLEAN : SetKey(key, value)

SpecKeys == Init /\ [][NextKeys]_vars

----------------------------------------------------------------------------
(* Register blocks: programs that fill V0..Vx, store them at an address,    *)
(* overwrite them with a block of zero bytes read from 0x800, and load them *)
(* back from the address.                                                   *)

\* the value the programs put in register r: V0..V2 = 0xA, 0xB, 0xC as in the
\* tests opcode_store_registers and opcode_load_registers
BlockValue(r) == 10 + r

\* where the block is stored: on the font table, at the tests' 0x300, and so
\* that its last byte is the last byte of memory
BlockAddrs(x) == {0, 768, MEM_SIZE - 1 - x}

LoadI(addr) == W(10, addr \div 256, (addr \div 16) % 16, addr % 16)

BlockProgram(x, addr) ==
    [r \in 1..(x + 1) |->
        W(6, r - 1, BlockValue(r - 1) \div 16, BlockValue(r - 1) % 16)]
    \o <<LoadI(addr), W(15, x, 5, 5),
         LoadI(2048), W(15, x, 6, 5),
         LoadI(addr), W(15, x, 6, 5)>>

\* the decimal digits of 255 written at address 0
BcdProgram == <<LoadI(0), W(6, 0, 15, 15), W(15, 0, 3, 3)>>

BlockPrograms ==
    UNION {{BlockProgram(x, addr) : addr \in BlockAddrs(x)} : x \in 0..15}
    \cup {BcdProgram}

NextBlock ==
    \/ emu = "none" /\ \E p \in BlockPrograms : LoadRom(Bytes(p))
    \/ Step({0}, MaxBlockTicks)

SpecBlock == Init /\ [][NextBlock]_vars

----------------------------------------------------------------------------
(* Random bytes: programs that draw a masked random byte, add to it, draw   *)
(* another one into VF and start over, under key events and timer ticks.    *)

RandMasks == {0, 15, 165, 255}

RandPrograms ==
    { <<W(12, x, kk \div 16, kk % 16), W(7, x, 0, 1), W(12, 15, 0, 15),
        W(1, 2, 0, 0)>> : x \in {3, 15}, kk \in RandMasks }

NextRand ==
    \/ emu = "none" /\ \E p \in RandPrograms : LoadRom(Bytes(p))
    \/ Step(RandBytes, MaxRandTicks)
    \/ TickTimers(MaxTimerRun)
    \/ \E value \in BOOLEAN : SetKey(10, value)

SpecRand == Init /\ [][NextRand]_vars

----------------------------------------------------------------------------
(* Conditional skips: programs that load Vx and Vy and execute one of 3xkk, *)
(* 4xkk, 5xy0, 9xy0, kk being the byte loaded into Vy.                      *)

SkipValues == {0, 1, 42, 255}

SkipPairs == {<<1, 2>>, <<3, 3>>, <<15, 0>>}

SkipWords(x, y, kk) ==
    {W(3, x, kk \div 16, kk % 16), W(4, x, kk \div 16, kk % 16),
     W(5, x, y, 0), W(9, x, y, 0)}

SkipPrograms ==
    UNION {{<<W(6, p[1], a \div 16, a % 16), W(6, p[2], b \div 16, b % 16), w>> :
                w \in SkipWords(p[1], p[2], b)} :
            p \in SkipPairs, a \in SkipValues, b \in SkipValues}

NextSkip ==
    \/ emu = "none" /\ \E p \in SkipPrograms : LoadRom(Bytes(p))
    \/ Step({0}, MaxSkipTicks)

SpecSkip == Init /\ [][NextSkip]_vars

----------------------------------------------------------------------------
(* The driving loop: the host calls run(cycles) on programs that wait for a *)
(* key, spin, or reach a word that does not decode, a return with no frame, *)
(* a fetch past the end of memory or a key index past 0xF.                  *)

\* Error::from(VmError)
from(value) == <<"VmError", value>>

\* what the loop has seen so far: the last opcode decoded, whether a timer
\* was stored, the display before the last draw, the steps made
NoSteps == [opcode |-> opcode, stored |-> FALSE,
            display_before |-> display_before, steps |-> 0]

Seen(g, v, t) ==
    [opcode |-> t.opcode,
     stored |-> g.stored \/ StoresTimer(t.opcode),
     display_before |-> IF t.opcode[1] = "Display" THEN v.display
                        ELSE g.display_before,
     steps |-> g.steps + 1]

\* `let res = ...`: the value of an expression, computed once
Only(S) == CHOOSE x \in S : TRUE

\* faulty variant: a word that does not decode is returned as an error like
\* the other faults
RECURSIVE run_strict(_, _, _, _, _)
run_strict(v, cycles, oc, rnd, g) ==
    IF cycles = 0 THEN [vm |-> v, res |-> <<"Ok", FALSE>>, seen |-> g]
    ELSE Only({ LET g2 == Seen(g, v, res)
                IN  IF res.res = Panic
                    THEN [vm |-> res.vm, res |-> Panic, seen |-> g2]
                    ELSE IF res.res # Ok
                    THEN [vm |-> res.vm, res |-> <<"Err", from(res.res)>>,
                          seen |-> g2]
                    ELSE run_strict(res.vm, cycles - 1, oc, rnd, g2) :
                res \in {tick(v, oc, rnd)} })

\* Emu::run(cycles), the iterations of the loop that are left; the colours
\* update_display_buffer writes to the output buffer are not part of the state
RECURSIVE run(_, _, _, _, _)
run(v, cycles, oc, rnd, g) ==
    IF cycles = 0 THEN [vm |-> v, res |-> <<"Ok", FALSE>>, seen |-> g]
    ELSE Only({ LET g2 == Seen(g, v, res)
                IN  IF res.res = Panic
                    THEN [vm |-> res.vm, res |-> Panic, seen |-> g2]
                    ELSE IF res.res[1] = "InvalidOpcode"
                    THEN [vm |-> res.vm, res |-> <<"Ok", TRUE>>, seen |-> g2]
                    ELSE IF res.res # Ok
                    THEN [vm |-> res.vm, res |-> <<"Err", from(res.res)>>,
                          seen |-> g2]
                    ELSE run(res.vm, cycles - 1, oc, rnd, g2) :
                res \in {tick(v, oc, rnd)} })

\* the ways a call of run can end, with what each shows of the build
RunOutcomes(v, known, cycles, rnd) ==
    LET on == run(v, cycles, TRUE, rnd, NoSteps)
        off == run(v, cycles, FALSE, rnd, NoSteps)
    IN  IF known = "on" THEN {[r |-> on, build |-> "on"]}
        ELSE IF known = "off" THEN {[r |-> off, build |-> "off"]}
        ELSE IF on = off THEN {[r |-> on, build |-> "unknown"]}
        ELSE {[r |-> on, build |-> "on"], [r |-> off, build |-> "off"]}

\* emu.run(cycles), while fewer than `limit` steps have been made
Run(cycles, limit) ==
    /\ emu = "ready"
    /\ ticks < limit
    /\ \E o \in RunOutcomes(vm, overflow_checks, cycles, 0) :
          /\ vm' = o.r.vm
          /\ result' = o.r.res
          /\ opcode' = o.r.seen.opcode
          /\ emu' = (IF o.r.res = Panic THEN "aborted" ELSE emu)
          /\ timer_run' = (IF o.r.seen.stored THEN 0 ELSE timer_run)
          /\ display_before' = o.r.seen.display_before
          /\ overflow_checks' = o.build
          /\ ticks' = ticks + o.r.seen.steps
    /\ call' = <<"run", cycles>>

RunCycles == {0, 1, 2, 3, 5}

RunPrograms ==
    { \* wait for a key into V1, then a word that does not decode
      <<W(15, 1, 0, 10), W(8, 1, 1, 8), W(6, 2, 0, 1)>>,
      \* two loads, a word that does not decode, a load, a spin
      <<W(6, 0, 0, 1), W(7, 0, 0, 1), W(14, 0, 0, 0), W(6, 0, 0, 2),
        W(1, 2, 0, 8)>>,
      \* a return with no frame after a load
      <<W(6, 0, 0, 1), W(0, 0, 14, 14), W(6, 0, 0, 2)>>,
      \* a jump to the last byte of memory
      <<W(1, 15, 15, 15)>>,
      \* a skip on key 0xFF
      <<W(6, 3, 15, 15), W(14, 3, 9, 14), W(6, 0, 0, 2)>>,
      \* a spin
      <<W(1, 2, 0, 0)>> }

NextRun ==
    \/ emu = "none" /\ \E p \in RunPrograms : LoadRom(Bytes(p))
    \/ \E cycles \in RunCycles : Run(cycles, MaxRunTicks)
    \/ \E value \in BOOLEAN : SetKey(10, value)

SpecRun == Init /\ [][NextRun]_vars

----------------------------------------------------------------------------
(* Index arithmetic: programs that put 0xFF in a register and 0xFFF in i    *)
(* and add the register to i in a loop, 241 times to pass 0xFFFF.           *)

AddPrograms ==
    { <<W(6, x, 15, 15), LoadI(4095), W(15, x, 1, 14), W(1, 2, 0, 4)>> :
          x \in {0, 15} }

NextAdd ==
    \/ emu = "none" /\ \E p \in AddPrograms : LoadRom(Bytes(p))
    \/ Step({0}, MaxAddTicks)

SpecAdd == Init /\ [][NextAdd]_vars

----------------------------------------------------------------------------
(* Jumps with offset: programs that load V0 and execute Bnnn, with targets  *)
(* inside memory, on its last bytes and past its end.                       *)

JumpAddrs == {0, 516, 3841, 4000, 4094, 4095}

JumpOffsets == {0, 1, 2, 96, 255}

JumpPrograms ==
    { <<W(6, 0, v0 \div 16, v0 % 16),
        W(11, nnn \div 256, (nnn \div 16) % 16, nnn % 16)>> :
          nnn \in JumpAddrs, v0 \in JumpOffsets }

NextJump ==
    \/ emu = "none" /\ \E p \in JumpPrograms : LoadRom(Bytes(p))
    \/ Step({0}, MaxJumpTicks)

SpecJump == Init /\ [][NextJump]_vars

----------------------------------------------------------------------------
(* Draws that name VF as a coordinate: programs that load VF and V1 and     *)
(* draw the glyph at i = 0 with DF1n, D1Fn or DFFn, on a blank display or   *)
(* over a first copy of the glyph drawn at (V2, V2) = (0, 0).               *)

FlagValues == {0, 1, 5, 40, 255}

FlagCoords == {0, 3, 60}

FlagDraws == {W(13, 15, 1, 5), W(13, 1, 15, 5), W(13, 15, 15, 5)}

FlagPrograms ==
    { <<W(6, 15, f \div 16, f % 16), W(6, 1, c \div 16, c % 16)>>
        \o (IF overlay THEN <<W(13, 2, 2, 5)>> ELSE <<>>) \o <<draw>> :
          f \in FlagValues, c \in FlagCoords, overlay \in BOOLEAN,
          draw \in FlagDraws }

NextFlag ==
    \/ emu = "none" /\ \E p \in FlagPrograms : LoadRom(Bytes(p))
    \/ Step({0}, MaxFlagTicks)

SpecFlag == Init /\ [][NextFlag]_vars

----------------------------------------------------------------------------
(* Register blocks that reach past the end of memory: programs that fill    *)
(* V0..VF with the first 16 font bytes, store V0..Vx with only `room` bytes *)
(* left below address 4096, store again, clear the registers from the zero  *)
(* bytes at 0x050, and load V0..Vx from the same address twice.             *)

FaultProgram(x, room) ==
    <<W(15, 15, 6, 5),
      LoadI(MEM_SIZE - room), W(15, x, 5, 5), W(15, x, 5, 5),
      LoadI(80), W(15, 15, 6, 5),
      LoadI(MEM_SIZE - room), W(15, x, 6, 5), W(15, x, 6, 5)>>

\* i := 0xFFF + 0xFF by Fx1E, then a store and a load
FarProgram ==
    <<W(6, 0, 15, 15), LoadI(4095), W(15, 0, 1, 14), W(15, 0, 5, 5),
      W(15, 0, 6, 5)>>

FaultPrograms ==
    {FaultProgram(x, room) : x \in {1, 2, 7, 15}, room \in {1, 2, 5, 15}}
    \cup {FarProgram}

NextFault ==
    \/ emu = "none" /\ \E p \in FaultPrograms : LoadRom(Bytes(p))
    \/ Step({0}, MaxFaultTicks)

SpecFault == Init /\ [][NextFault]_vars

----------------------------------------------------------------------------
(* Properties *)

\* the instruction word at pc, its family (high nibble), x operand and low byte
WordAt(v) == Byte(v.ram, v.pc) * 256 + Byte(v.ram, v.pc + 1)
Family(w) == w \div 4096
XOf(w) == (w \div 256) % 16
LowByte(w) == w % 256

\* the step about to be taken by a tick fetches a word of family 0xF with
\* the given low byte
Executes(low) ==
    /\ call'[1] = "tick"
    /\ ~vm.is_waiting
    /\ vm.pc + 1 < MEM_SIZE
    /\ Family(WordAt(vm)) = 15
    /\ LowByte(WordAt(vm)) = low

Max0(n) == IF n > 0 THEN n ELSE 0

\* C1: load_rom returns InvalidRom, builds no engine and does not abort for
\* every image longer than 4096 - 0x200 = 3584 bytes, and returns an engine
\* for every image of at most 3584 bytes.
C1_OversizedImageRejected ==
    call[1] = "load_rom" =>
        IF Len(call[2]) > MEM_SIZE - ROM_START
        THEN result = InvalidRom /\ emu = "none"
        ELSE result = Ok /\ emu = "ready"

C1_Witness ==
    /\ call[1] = "load_rom" /\ Len(call[2]) = 3585
    /\ result = Panic /\ emu = "aborted"

\* C2: right after Vm::new with an accepted image, pc = 0x200, i = 0, every V
\* register, both timers are 0, the stack is empty, every key is up, every
\* display cell is unlit, the wait flag is clear, memory holds the font glyphs
\* at 0..80, the image from 0x200 on, and 0 everywhere else.
C2_FreshEngine ==
    (call[1] = "load_rom" /\ emu = "ready") =>
        LET rom == call[2]
        IN  /\ vm.pc = 512
            /\ vm.i_register = 0
            /\ \A r \in 0..15 : vm.v_registers[r] = 0
            /\ vm.delay = 0 /\ vm.sound = 0
            /\ vm.stack = <<>>
            /\ \A k \in 0..15 : vm.keys[k] = FALSE
            /\ \A c \in 0..2047 : c \notin vm.display
            /\ vm.is_waiting = FALSE
            /\ Len(numbers) = 80
            /\ \A a \in 0..4095 :
                  Byte(vm.ram, a) = (IF a < 80 THEN numbers[a + 1]
                                     ELSE IF a >= 512 /\ a < 512 + Len(rom)
                                          THEN rom[a - 511]
                                     ELSE 0)

C2_Witness ==
    /\ call[1] = "load_rom" /\ emu = "ready"
    /\ Len(call[2]) >= 2 /\ call[2][1] # 0

\* C3: a tick made while the wait flag is set returns Ok and leaves every
\* field of the engine as it was.
C3_TickWhileWaiting ==
    [][(emu = "ready" /\ vm.is_waiting /\ call'[1] = "tick")
          => (result' = Ok /\ vm' = vm /\ emu' = "ready")]_vars

C3_Witness ==
    /\ emu = "ready" /\ vm.is_waiting
    /\ call = <<"tick">> /\ opcode = NoOpcode /\ result = Ok

\* C4: a step that executes Fx0A at address a sets the wait flag and leaves
\* pc = a + 2; while the flag is set no call changes pc, and the flag is
\* cleared by set_key(k, true) with k < 16 and by no other call, whatever
\* keys were down when the wait began; the tick after that fetches at pc.
C4_WaitUntilKeyDown ==
    [][/\ (emu = "ready" /\ Executes(10))
            => (result' = Ok /\ vm'.is_waiting /\ vm'.pc = vm.pc + 2)
       /\ (emu = "ready" /\ vm.is_waiting)
            => /\ vm'.pc = vm.pc
               /\ vm'.is_waiting <=>
                     ~(call'[1] = "set_key" /\ call'[2] < 16 /\ call'[3])
       /\ (emu = "ready" /\ call[1] = "set_key" /\ ~vm.is_waiting
             /\ call'[1] = "tick" /\ vm.pc + 1 < MEM_SIZE)
            => opcode' = try_from(WordAt(vm))]_vars

C4_Witness ==
    /\ emu = "ready" /\ vm.is_waiting /\ vm.keys[10]
    /\ call = <<"tick">> /\ opcode = NoOpcode
    /\ vm.pc = 514

\* C5: set_key(k, pressed) with k < 16 returns Ok, sets keys[k] to pressed and
\* no other key; a press during a wait clears the wait flag and writes k to
\* the register named by the Fx0A that began the wait, and to no other
\* register; otherwise registers and wait state are unchanged; pc, i, memory,
\* stack, timers and display are unchanged in every case.
C5_SetKey ==
    [][(emu = "ready" /\ call'[1] = "set_key" /\ call'[2] < 16) =>
          LET k == call'[2]
              pressed == call'[3]
          IN  /\ result' = Ok
              /\ \A j \in 0..15 : vm'.keys[j] = (IF j = k THEN pressed ELSE vm.keys[j])
              /\ IF pressed /\ vm.is_waiting
                 THEN LET x == XOf(Byte(vm.ram, vm.pc - 2) * 256)
                      IN  /\ ~vm'.is_waiting
                          /\ \A r \in 0..15 :
                                vm'.v_registers[r] =
                                   (IF r = x THEN k ELSE vm.v_registers[r])
                 ELSE /\ vm'.is_waiting = vm.is_waiting
                      /\ vm'.vx_after_wait = vm.vx_after_wait
                      /\ vm'.v_registers = vm.v_registers
              /\ vm'.pc = vm.pc /\ vm'.i_register = vm.i_register
              /\ vm'.ram = vm.ram /\ vm'.stack = vm.stack
              /\ vm'.delay = vm.delay /\ vm'.sound = vm.sound
              /\ vm'.display = vm.display]_vars

C5_Witness ==
    /\ emu = "ready" /\ call = <<"set_key", 15, TRUE>> /\ result = Ok
    /\ ~vm.is_waiting /\ vm.pc = 514
    /\ vm.v_registers[11] = 15 /\ vm.v_registers[1] = 0
    /\ vm.keys[10] /\ vm.keys[15]

\* C6: set_key(k, pressed) with k >= 16 returns InvalidKey(k) and leaves every
\* field of the engine as it was, also during a wait and when pressed is true.
C6_InvalidKey ==
    [][(emu = "ready" /\ call'[1] = "set_key" /\ call'[2] >= 16)
          => (result' = InvalidKey(call'[2]) /\ vm' = vm)]_vars

C6_Witness ==
    /\ emu = "ready" /\ call = <<"set_key", 16, TRUE>>
    /\ result = InvalidKey(16) /\ vm.is_waiting

\* C7: tick_timers sets delay to max(0, delay - 1) and sound to
\* max(0, sound - 1) and changes nothing else, waiting for a key or not; after
\* 255 calls with no store-timer instruction in between both timers are 0.
C7_TickTimers ==
    [][(emu = "ready" /\ call'[1] = "tick_timers") =>
          /\ vm' = [vm EXCEPT !.delay = Max0(vm.delay - 1),
                              !.sound = Max0(vm.sound - 1)]
          /\ timer_run' >= 255 => (vm'.delay = 0 /\ vm'.sound = 0)]_vars

C7_Witness ==
    /\ emu = "ready" /\ call = <<"tick_timers">> /\ vm.is_waiting
    /\ timer_run = 255 /\ vm.delay = 0 /\ vm.sound = 0

\* C8: over tick and set_key calls, delay changes only in a step that executes
\* Fx15, which sets it to Vx, and sound only in a step that executes Fx18,
\* which sets it to Vx.
C8_TimersOnlyStored ==
    [][(emu = "ready" /\ call'[1] \in {"tick", "set_key"}) =>
          LET x == XOf(WordAt(vm))
          IN  /\ vm'.delay # vm.delay => Executes(21)
              /\ vm'.sound # vm.sound => Executes(24)
              /\ Executes(21) => vm'.delay = vm.v_registers[x]
              /\ Executes(24) => vm'.sound = vm.v_registers[x]]_vars

C8_Witness ==
    /\ emu = "ready" /\ call = <<"tick">> /\ opcode = <<"StoreSound", 1>>
    /\ vm.sound = 2 /\ vm.delay = 3

\* what C9 says of the outcome op of decoding the word w
DecodedAsClaimed(w, op) ==
    LET fam == Family(w)
        x == XOf(w)
        y == (w \div 16) % 16
        n == w % 16
        kk == LowByte(w)
        addr == w % 4096
        invalid ==
            \/ fam \in {5, 9} /\ n # 0
            \/ fam = 8 /\ n \in {8, 9, 10, 11, 12, 13, 15}
            \/ fam = 14 /\ kk \notin {158, 161}
            \/ fam = 15 /\ kk \notin {7, 10, 21, 24, 30, 41, 51, 85, 101}
    IN  IF invalid THEN op = InvalidOpcode(w)
        ELSE /\ op[1] # "InvalidOpcode"
             /\ Tail(op) = (CASE fam = 0 -> <<>>
                              [] fam \in {1, 2, 10, 11} -> <<addr>>
                              [] fam \in {3, 4, 6, 7, 12} -> <<x, kk>>
                              [] fam \in {5, 8, 9} -> <<x, y>>
                              [] fam = 13 -> <<x, y, n>>
                              [] fam \in {14, 15} -> <<x>>)

\* C9: for every 16-bit word, try_from returns InvalidOpcode carrying the word
\* exactly for family 5 or 9 with low nibble # 0, family 8 with low nibble in
\* {8,9,A,B,C,D,F}, family E with low byte not in {9E,A1}, family F with low
\* byte not in {07,0A,15,18,1E,29,33,55,65}, and otherwise an instruction whose
\* operands are x = bits 8..11, y = bits 4..7, n = low nibble, kk = low byte,
\* addr = low 12 bits.
C9_DecodeTotal ==
    [][(call[1] = "load_rom" /\ emu = "ready" /\ call'[1] = "tick")
          => DecodedAsClaimed(call[2][1] * 256 + call[2][2], opcode')]_vars

C9_Witness ==
    /\ call = <<"tick">> /\ opcode = InvalidOpcode(65535)
    /\ result = InvalidOpcode(65535)

\* C10: every word 0x0nnn other than 0x00E0 and 0x00EE decodes to NoOp, and the
\* step that executes it returns Ok and changes nothing but pc, which grows by 2.
C10_LegacyNoOp ==
    [][(call[1] = "load_rom" /\ emu = "ready" /\ call'[1] = "tick"
          /\ call[2][1] < 16 /\ call[2] \notin {<<0, 224>>, <<0, 238>>})
          => /\ opcode' = <<"NoOp">>
             /\ result' = Ok
             /\ emu' = "ready"
             /\ vm' = [vm EXCEPT !.pc = vm.pc + 2]]_vars

C10_Witness ==
    /\ emu = "ready" /\ call = <<"tick">> /\ opcode = <<"NoOp">> /\ result = Ok
    /\ vm.pc = 514 /\ Byte(vm.ram, 512) = 0 /\ Byte(vm.ram, 513) = 0

\* the step about to be taken is a tick that is not held by a wait and whose
\* two instruction bytes lie in memory
Fetches ==
    /\ emu = "ready"
    /\ call'[1] = "tick"
    /\ ~vm.is_waiting
    /\ vm.pc + 1 < MEM_SIZE

\* the words no arm of the decoder matches
Undecodable(w) ==
    \/ Family(w) \in {5, 9} /\ w % 16 # 0
    \/ Family(w) = 8 /\ w % 16 \in {8, 9, 10, 11, 12, 13, 15}
    \/ Family(w) = 14 /\ LowByte(w) \notin {158, 161}
    \/ Family(w) = 15 /\ LowByte(w) \notin {7, 10, 21, 24, 30, 41, 51, 85, 101}

\* C11: a tick whose fetch succeeds on a word that does not decode returns
\* InvalidOpcode(word), advances pc by exactly 2 and changes nothing else, so
\* the next tick moves on to the following word.
C11_InvalidOpcodeAdvances ==
    [][(Fetches /\ Undecodable(WordAt(vm)))
          => /\ result' = InvalidOpcode(WordAt(vm))
             /\ emu' = "ready"
             /\ vm' = [vm EXCEPT !.pc = vm.pc + 2]]_vars

C11_Witness ==
    /\ emu = "ready" /\ call = <<"tick">>
    /\ result = InvalidOpcode(W(8, 10, 11, 8))
    /\ vm.pc = 516 /\ ticks = 2

\* C12: a tick whose fetch fails because pc or pc + 1 lies outside memory
\* returns InvalidAddress and leaves pc and every other field unchanged, so
\* failing steps never move pc and never abort the engine.
C12_FailedFetchKeepsPc ==
    [][(emu = "ready" /\ call'[1] = "tick" /\ ~vm.is_waiting
          /\ vm.pc + 1 >= MEM_SIZE)
          => /\ result'[1] = "InvalidAddress"
             /\ emu' = "ready"
             /\ vm' = vm]_vars

C12_Witness ==
    /\ emu = "ready" /\ call = <<"tick">> /\ opcode = NoOpcode
    /\ result = InvalidAddress(4096)
    /\ vm.pc = 4097 /\ ticks = 2

\* C13: a call at address a pushes a + 2 and sets pc to its operand, at any
\* depth; a return with a frame pops the most recently pushed address into
\* pc; no other step and no other call changes the stack.  Hence the depth
\* is calls minus successful returns and nested calls return in reverse
\* order, each to its call site + 2.
C13_CallReturnLifo ==
    [][emu = "ready" =>
          IF Fetches /\ Family(WordAt(vm)) = 2
          THEN /\ result' = Ok
               /\ vm'.stack = Append(vm.stack, vm.pc + 2)
               /\ vm'.pc = WordAt(vm) % 4096
          ELSE IF Fetches /\ WordAt(vm) = 238 /\ vm.stack # <<>>
          THEN /\ result' = Ok
               /\ vm'.pc = vm.stack[Len(vm.stack)]
               /\ vm'.stack = SubSeq(vm.stack, 1, Len(vm.stack) - 1)
          ELSE vm'.stack = vm.stack]_vars

C13_Witness ==
    /\ emu = "ready" /\ call = <<"tick">> /\ opcode = <<"Ret">> /\ result = Ok
    /\ vm.v_registers[0] = 18
    /\ Len(vm.stack) = 16 /\ vm.pc = 518
    /\ \A j \in 1..16 : vm.stack[j] = 518

\* C14: a tick that executes return (0x00EE) with an empty stack returns
\* EmptyStack; pc is the address of the return instruction + 2, the stack is
\* still empty and nothing else has changed.
C14_ReturnOnEmptyStack ==
    [][(Fetches /\ WordAt(vm) = 238 /\ vm.stack = <<>>)
          => /\ result' = EmptyStack
             /\ emu' = "ready"
             /\ vm' = [vm EXCEPT !.pc = vm.pc + 2]]_vars

C14_Witness ==
    /\ emu = "ready" /\ call = <<"tick">> /\ result = EmptyStack
    /\ vm.stack = <<>> /\ vm.pc = 520 /\ vm.v_registers[0] = 18

\* the tick about to be taken executes 8xyN with the low nibble n
ExecutesAlu(n) ==
    /\ Fetches
    /\ Family(WordAt(vm)) = 8
    /\ WordAt(vm) % 16 = n

\* the y operand of a word
YOf(w) == (w \div 16) % 16

\* the register file after an 8xyN instruction that leaves `value` in Vx and
\* `flag` in VF, x # F
AluRegisters(x, value, flag) ==
    [r \in 0..15 |-> IF r = x THEN value
                     ELSE IF r = 15 THEN flag
                     ELSE vm.v_registers[r]]

\* C15: add-registers (8xy4) with x # F sets Vx to (Vx + Vy) mod 256 and VF to
\* 1 if Vx + Vy > 255, else 0; no other register changes, and outside the
\* register file only pc, by 2.
C15_AddRegisters ==
    [][(ExecutesAlu(4) /\ XOf(WordAt(vm)) # 15) =>
          LET x == XOf(WordAt(vm))
              a == vm.v_registers[x]
              b == vm.v_registers[YOf(WordAt(vm))]
          IN  /\ result' = Ok
              /\ vm' = [vm EXCEPT
                          !.pc = vm.pc + 2,
                          !.v_registers =
                              AluRegisters(x, (a + b) % 256,
                                           IF a + b > 255 THEN 1 ELSE 0)]]_vars

C15_Witness ==
    /\ emu = "ready" /\ call = <<"tick">> /\ opcode = <<"Add", 1, 2>>
    /\ Byte(vm.ram, 513) = 255
    /\ vm.v_registers[2] = 1 /\ vm.v_registers[1] = 0 /\ vm.v_registers[15] = 1

\* C15 to C17 leave everything outside the register file alone but pc
AluStep(x, value, flag) ==
    /\ result' = Ok
    /\ vm' = [vm EXCEPT !.pc = vm.pc + 2,
                        !.v_registers = AluRegisters(x, value, flag)]

\* C16: with x # F, subtract (8xy5) sets Vx to (Vx - Vy) mod 256 and VF to 1
\* iff Vx >= Vy; subtract-reverse (8xy7) sets Vx to (Vy - Vx) mod 256 and VF
\* to 1 iff Vy >= Vx; equal operands give 0 with VF = 1.
C16_Subtract ==
    [][LET x == XOf(WordAt(vm))
           a == vm.v_registers[x]
           b == vm.v_registers[YOf(WordAt(vm))]
       IN  /\ (ExecutesAlu(5) /\ x # 15)
                 => AluStep(x, (a - b + 256) % 256, IF a >= b THEN 1 ELSE 0)
           /\ (ExecutesAlu(7) /\ x # 15)
                 => AluStep(x, (b - a + 256) % 256, IF b >= a THEN 1 ELSE 0)
           /\ ((ExecutesAlu(5) \/ ExecutesAlu(7)) /\ x # 15 /\ a = b)
                 => (vm'.v_registers[x] = 0 /\ vm'.v_registers[15] = 1)]_vars

C16_Witness ==
    /\ emu = "ready" /\ call = <<"tick">> /\ opcode = <<"Sub", 1, 2>>
    /\ Byte(vm.ram, 513) = 128
    /\ vm.v_registers[2] = 128 /\ vm.v_registers[1] = 0 /\ vm.v_registers[15] = 1

\* C17: shift-right (8xy6) sets Vx to Vy >> 1 and VF to Vy & 1; shift-left
\* (8xyE) sets Vx to (Vy << 1) mod 256 and VF to bit 7 of Vy; the value Vx had
\* does not enter the result, and Vy is unchanged when y # x and y # F.
C17_ShiftsReadVy ==
    [][LET x == XOf(WordAt(vm))
           y == YOf(WordAt(vm))
           b == vm.v_registers[y]
       IN  /\ (ExecutesAlu(6) /\ x # 15) => AluStep(x, b \div 2, b % 2)
           /\ (ExecutesAlu(14) /\ x # 15) => AluStep(x, (b * 2) % 256, b \div 128)
           /\ ((ExecutesAlu(6) \/ ExecutesAlu(14)) /\ y # x /\ y # 15)
                 => vm'.v_registers[y] = b]_vars

C17_Witness ==
    /\ emu = "ready" /\ call = <<"tick">> /\ opcode = <<"ShiftR", 1, 2>>
    /\ Byte(vm.ram, 513) = 254
    /\ vm.v_registers[2] = 3 /\ vm.v_registers[1] = 1 /\ vm.v_registers[15] = 1

\* the flag of 8xyN from the values a of Vx and b of Vy before the step
AluFlag(n, a, b) ==
    CASE n = 4 -> IF a + b > 255 THEN 1 ELSE 0
      [] n = 5 -> IF a >= b THEN 1 ELSE 0
      [] n = 7 -> IF b >= a THEN 1 ELSE 0
      [] n = 6 -> b % 2
      [] n = 14 -> b \div 128

\* C18: for add, subtract, subtract-reverse, shift-right and shift-left with
\* destination x = F, VF after the step is the flag computed from the operand
\* values read before the step, not the arithmetic result; with y = F the
\* operand is the value VF had before the step.
C18_FlagWrittenLast ==
    [][\A n \in {4, 5, 6, 7, 14} :
          (ExecutesAlu(n) /\ XOf(WordAt(vm)) = 15) =>
              /\ result' = Ok
              /\ vm'.v_registers =
                    [vm.v_registers EXCEPT
                        ![15] = AluFlag(n, vm.v_registers[15],
                                        vm.v_registers[YOf(WordAt(vm))])]]_vars

C18_Witness ==
    /\ emu = "ready" /\ call = <<"tick">> /\ opcode = <<"Sub", 15, 2>>
    /\ Byte(vm.ram, 513) = 200 /\ vm.v_registers[2] = 100
    /\ vm.v_registers[15] = 1

\* the tick about to be taken executes Dxyn with its n sprite bytes in memory
ExecutesDraw ==
    /\ Fetches
    /\ Family(WordAt(vm)) = 13
    /\ vm.i_register + (WordAt(vm) % 16) <= MEM_SIZE

\* bit c, counted from the most significant, of sprite row r is set
SpriteBit(r, c) == (Byte(vm.ram, vm.i_register + r) \div (2 ^ (7 - c))) % 2 = 1

\* the cells the set bits of the sprite of the word at pc fall on
Toggled ==
    LET w == WordAt(vm)
        sx == vm.v_registers[XOf(w)]
        sy == vm.v_registers[YOf(w)]
    IN  { ((sy + rc[1]) % 32) * 64 + ((sx + rc[2]) % 64) :
             rc \in {p \in (0..((w % 16) - 1)) \X (0..7) : SpriteBit(p[1], p[2])} }

\* C19: Dxyn with its sprite bytes in memory, for every Vx and Vy including
\* those where Vx + col or Vy + row exceeds 255, never aborts, toggles exactly
\* the cells ((Vx + c) mod 64, (Vy + r) mod 32) of the set sprite bits, and
\* sets VF to 1 iff one of them was lit before, else to 0; n = 0 draws nothing.
C19_DrawWraps ==
    [][(ExecutesDraw /\ XOf(WordAt(vm)) # 15 /\ YOf(WordAt(vm)) # 15)
          => /\ result' = Ok
             /\ emu' = "ready"
             /\ vm' = [vm EXCEPT
                         !.pc = vm.pc + 2,
                         !.display = (vm.display \ Toggled)
                                         \cup (Toggled \ vm.display),
                         !.v_registers[15] =
                             IF Toggled \cap vm.display # {} THEN 1 ELSE 0]]_vars

C19_Witness ==
    /\ emu = "aborted" /\ call = <<"tick">> /\ result = Panic
    /\ opcode = <<"Display", 0, 1, 2>> /\ overflow_checks = "on"
    /\ vm.v_registers[0] = 249 /\ vm.v_registers[1] = 0

\* C20: executing the same draw instruction twice in a row restores the
\* display to what it was before the first draw; from a blank display the
\* first draw sets VF = 0 and the second, if the sprite has a set bit, VF = 1.
C20_DrawTwiceRestores ==
    [][(ExecutesDraw /\ call = <<"tick">> /\ result = Ok
          /\ opcode = <<"Display", XOf(WordAt(vm)), YOf(WordAt(vm)), WordAt(vm) % 16>>
          /\ XOf(WordAt(vm)) # 15 /\ YOf(WordAt(vm)) # 15)
          => /\ result' = Ok
             /\ vm'.display = display_before
             /\ display_before = {}
                   => /\ vm.v_registers[15] = 0
                      /\ vm'.v_registers[15] = (IF Toggled # {} THEN 1 ELSE 0)]_vars

C20_Witness ==
    /\ emu = "ready" /\ call = <<"tick">> /\ result = Ok /\ ticks = 6
    /\ opcode = <<"Display", 0, 1, 4>>
    /\ vm.v_registers[0] = 1 /\ vm.v_registers[1] = 0
    /\ Cardinality(vm.display) = 20 /\ 0 \in vm.display
    /\ Cardinality(display_before) = 12
    /\ vm.v_registers[15] = 1

\* C21: a draw whose sprite bytes i .. i + n - 1 reach past address 4095
\* returns InvalidAddress as a value and does not abort the engine.
C21_DrawOutOfRangeFaults ==
    [][(Fetches /\ Family(WordAt(vm)) = 13
          /\ vm.i_register + (WordAt(vm) % 16) > MEM_SIZE)
          => /\ result'[1] = "InvalidAddress"
             /\ emu' = "ready"]_vars

C21_Witness ==
    /\ emu = "aborted" /\ call = <<"tick">> /\ result = Panic
    /\ opcode = <<"Display", 0, 0, 2>> /\ vm.i_register = 4095
    /\ overflow_checks = "unknown"

\* C22: Ex9E and ExA1 read the key index from Vx: with Vx >= 16 the step
\* returns InvalidKey(Vx), pc is the instruction's address + 2 and nothing
\* else has changed; otherwise Ex9E ends at address + 4 iff keys[Vx] is down,
\* ExA1 iff it is up, and at address + 2 in the other case; no step changes
\* the key state.
C22_KeySkips ==
    [][/\ (Fetches /\ Family(WordAt(vm)) = 14 /\ LowByte(WordAt(vm)) \in {158, 161})
            => LET k == vm.v_registers[XOf(WordAt(vm))]
                   skips == IF LowByte(WordAt(vm)) = 158 THEN vm.keys[k]
                            ELSE ~vm.keys[k]
               IN  IF k >= 16
                   THEN /\ result' = InvalidKey(k)
                        /\ vm' = [vm EXCEPT !.pc = vm.pc + 2]
                   ELSE /\ result' = Ok
                        /\ vm' = [vm EXCEPT
                                    !.pc = IF skips THEN vm.pc + 4 ELSE vm.pc + 2]
       /\ (emu = "ready" /\ call'[1] = "tick") => vm'.keys = vm.keys]_vars

C22_Witness ==
    /\ emu = "ready" /\ call = <<"tick">> /\ result = Ok
    /\ opcode = <<"SkipIfKey", 3>> /\ vm.v_registers[3] = 10
    /\ vm.keys[10] /\ ~vm.keys[15] /\ vm.pc = 518

\* the tick about to be taken executes Fx55 (low = 85) or Fx65 (low = 101)
\* with the whole block i .. i + x in memory
ExecutesBlock(low) ==
    /\ Executes(low)
    /\ vm.i_register + XOf(WordAt(vm)) <= 4095

\* C23: with i + x <= 4095, Fx55 writes V0..Vx to memory[i .. i + x] and Fx65
\* reads V0..Vx from there; both end with i = i + x + 1 and change nothing
\* else but pc; a load from the address of an earlier store gives back the
\* values stored, whatever the registers held in between.
C23_RegisterBlockRoundTrip ==
    [][LET x == XOf(WordAt(vm))
           i == vm.i_register
       IN  /\ ExecutesBlock(85)
                => /\ result' = Ok
                   /\ \A a \in 0..4095 :
                         Byte(vm'.ram, a) =
                            (IF a >= i /\ a <= i + x THEN vm.v_registers[a - i]
                             ELSE Byte(vm.ram, a))
                   /\ vm' = [vm EXCEPT !.pc = vm.pc + 2,
                                       !.i_register = i + x + 1,
                                       !.ram = vm'.ram]
           /\ ExecutesBlock(101)
                => /\ result' = Ok
                   /\ vm' = [vm EXCEPT
                               !.pc = vm.pc + 2,
                               !.i_register = i + x + 1,
                               !.v_registers =
                                   [r \in 0..15 |-> IF r <= x THEN Byte(vm.ram, i + r)
                                                    ELSE vm.v_registers[r]]]
           /\ (ExecutesBlock(101) /\ ticks = x + 6)
                => /\ \A r \in 0..x : vm.v_registers[r] = 0
                   /\ \A r \in 0..x : vm'.v_registers[r] = Byte(vm.ram, 513 + 2 * r)
                   /\ \A r \in 0..x : vm'.v_registers[r] = BlockValue(r)]_vars

C23_Witness ==
    /\ emu = "ready" /\ call = <<"tick">> /\ result = Ok
    /\ opcode = <<"LoadRegisters", 2>> /\ ticks = 9
    /\ vm.i_register = 771
    /\ vm.v_registers[0] = 10 /\ vm.v_registers[1] = 11 /\ vm.v_registers[2] = 12
    /\ Byte(vm.ram, 768) = 10 /\ Byte(vm.ram, 769) = 11 /\ Byte(vm.ram, 770) = 12

\* C24: in every state of a loaded machine, memory[0 .. 80) holds the 16
\* glyphs that load_fonts wrote.
C24_FontsNeverModified ==
    emu = "ready" => \A a \in 0..79 : Byte(vm.ram, a) = numbers[a + 1]

\* Fx55 with i = 0 has replaced the first row of glyph 0 (0xF0) by V0
C24_Witness ==
    /\ emu = "ready" /\ call = <<"tick">> /\ result = Ok
    /\ opcode = <<"StoreRegisters", 0>>
    /\ numbers[1] = 240 /\ Byte(vm.ram, 0) = 10

\* Fx33 with i = 0 has replaced the first rows of glyph 0 by the digits 2, 5, 5
C24_WitnessBcd ==
    /\ emu = "ready" /\ call = <<"tick">> /\ result = Ok
    /\ opcode[1] = "Bcd"
    /\ Byte(vm.ram, 0) = 2 /\ Byte(vm.ram, 1) = 5 /\ Byte(vm.ram, 2) = 5

SkipCondition(w) ==
    LET vx == vm.v_registers[XOf(w)]
        vy == vm.v_registers[YOf(w)]
    IN  CASE Family(w) = 3 -> vx = LowByte(w)
          [] Family(w) = 4 -> vx # LowByte(w)
          [] Family(w) = 5 -> vx = vy
          [] Family(w) = 9 -> vx # vy

\* C26: 3xkk, 4xkk, 5xy0 and 9xy0 return Ok and leave pc at the address of
\* the instruction plus 4 when their condition holds (Vx == kk, Vx != kk,
\* Vx == Vy, Vx != Vy) and plus 2 when it does not; nothing else changes.
C26_SkipsOnlyMovePc ==
    [][LET w == WordAt(vm)
       IN  (/\ Fetches
            /\ \/ Family(w) \in {3, 4}
               \/ Family(w) \in {5, 9} /\ w % 16 = 0)
               => /\ result' = Ok
                  /\ vm' = [vm EXCEPT !.pc = IF SkipCondition(w) THEN vm.pc + 4
                                             ELSE vm.pc + 2]]_vars

\* 6301 632A 9330: V3 is compared with itself, 9xy0 does not skip
C26_Witness ==
    /\ emu = "ready" /\ call = <<"tick">> /\ result = Ok
    /\ opcode = <<"SkipNeqVxVy", 3, 3>>
    /\ vm.v_registers[3] = 42 /\ vm.pc = 518

\* 6F2A 602A 5F00: VF == V0, 5xy0 skips
C26_WitnessSkip ==
    /\ emu = "ready" /\ call = <<"tick">> /\ result = Ok
    /\ opcode = <<"SkipEqVxVy", 15, 0>>
    /\ vm.v_registers[15] = 42 /\ vm.v_registers[0] = 42 /\ vm.pc = 520

\* the engine after k steps from v
RECURSIVE After(_, _, _)
After(v, k, oc) == IF k = 0 THEN v ELSE tick(After(v, k - 1, oc), oc, 0).vm

\* what step k + 1 from the state returns
StepResult(k, oc) == tick(After(vm, k, oc), oc, 0).res

\* C27: run(cycles) makes the steps one after the other until one of them
\* does not return Ok or `cycles` steps are made: it returns Ok(true) after
\* a step that returned InvalidOpcode, Err(fault) after a step that returned
\* another fault, and Ok(false) after `cycles` steps that returned Ok, none
\* when cycles = 0; no step is made after the one that stopped the loop.
C27_RunStopsAtFirstFault ==
    [][(emu = "ready" /\ call'[1] = "run")
          => LET cycles == call'[2]
                 oc == overflow_checks' = "on"
                 made == ticks' - ticks
                 faulty == {k \in 0..(cycles - 1) : StepResult(k, oc) # Ok}
             IN  /\ made <= cycles
                 /\ vm' = After(vm, made, oc)
                 /\ \A k \in 0..(made - 2) : StepResult(k, oc) = Ok
                 /\ faulty = {}
                      => made = cycles /\ result' = <<"Ok", FALSE>>
                 /\ faulty # {}
                      => LET first == CHOOSE k \in faulty : \A j \in faulty : k <= j
                             res == StepResult(first, oc)
                         IN  /\ made = first + 1
                             /\ res[1] = "InvalidOpcode" => result' = <<"Ok", TRUE>>
                             /\ res[1] \in {"InvalidAddress", "InvalidKey", "EmptyStack"}
                                  => result' = <<"Err", <<"VmError", res>>>>]_vars

\* run(5) on 6001 7001 E000 6002 1208 stopped after its third step
C27_Witness ==
    /\ emu = "ready" /\ call = <<"run", 5>> /\ result = <<"Ok", TRUE>>
    /\ ticks = 3 /\ vm.pc = 518 /\ vm.v_registers[0] = 2

\* run(5) waiting for a key through all of its steps
C27_WitnessWaiting ==
    /\ emu = "ready" /\ call = <<"run", 5>> /\ result = <<"Ok", FALSE>>
    /\ ticks = 6 /\ vm.is_waiting /\ vm.pc = 514

\* run(3) ended by the return with no frame in its second step
C27_WitnessErr ==
    /\ emu = "ready" /\ call = <<"run", 3>>
    /\ result = <<"Err", <<"VmError", <<"EmptyStack">>>>>>
    /\ ticks = 2 /\ vm.pc = 516

\* C28: Fx1E returns Ok and leaves (i + Vx) mod 2^16 in i, whatever i and Vx;
\* nothing else changes but pc.
C28_AddIndexWraps ==
    [][Executes(30)
          => /\ result' = Ok
             /\ emu' = "ready"
             /\ vm' = [vm EXCEPT
                         !.pc = vm.pc + 2,
                         !.i_register =
                             (vm.i_register + vm.v_registers[XOf(WordAt(vm))]) % U16]]_vars

\* the 241st addition of 0xFF to i = 0xFFF + 240 * 0xFF aborts the step when
\* the build checks overflow
C28_Witness ==
    /\ emu = "aborted" /\ call = <<"tick">> /\ result = Panic
    /\ overflow_checks = "on" /\ ticks = 483
    /\ vm.i_register = 65295 /\ vm.v_registers[0] = 255

\* and leaves 65550 - 65536 in i when it does not
C28_WitnessWrapped ==
    /\ emu = "ready" /\ call = <<"tick">> /\ result = Ok
    /\ overflow_checks = "off" /\ ticks = 483
    /\ vm.i_register = 14 /\ vm.v_registers[0] = 255

\* C29: Bnnn returns Ok and leaves nnn + V0 in pc, a sum of up to 0x10FE that
\* is not reduced to 12 bits, and changes nothing else; when the sum is past
\* 4095 the step after it returns InvalidAddress and pc stays past 4095.
C29_JumpOffsetUnmasked ==
    [][/\ (Fetches /\ Family(WordAt(vm)) = 11)
            => /\ result' = Ok
               /\ vm' = [vm EXCEPT !.pc = (WordAt(vm) % 4096) + vm.v_registers[0]]
               /\ vm'.pc <= 4350
       /\ (/\ emu = "ready" /\ call = <<"tick">> /\ call'[1] = "tick"
           /\ opcode[1] = "JumpOffset" /\ result = Ok /\ vm.pc > 4095)
            => /\ result'[1] = "InvalidAddress"
               /\ emu' = "ready"
               /\ vm'.pc > 4095
               /\ vm' = [vm EXCEPT !.pc = vm'.pc]]_vars

\* 60FF BFFF: pc = 0xFFF + 0xFF = 0x10FE
C29_Witness ==
    /\ emu = "ready" /\ call = <<"tick">> /\ result = Ok
    /\ opcode = <<"JumpOffset", 4095>> /\ vm.v_registers[0] = 255
    /\ vm.pc = 4350

\* the step after it
C29_WitnessFault ==
    /\ emu = "ready" /\ call = <<"tick">> /\ result[1] = "InvalidAddress"
    /\ ticks = 3 /\ vm.v_registers[0] = 255 /\ vm.pc > 4350

\* the instructions the match of tick has an arm for (vm.rs:118-152)
Handled ==
    {"ClearScreen", "Ret", "Jump", "Call", "LoadVx", "SkipIfEq", "SkipIfNeq",
     "SkipEqVxVy", "AddVx", "LoadVxVy", "Or", "And", "Xor", "Add", "Sub",
     "ShiftR", "SubN", "ShiftL", "SkipNeqVxVy", "LoadI", "JumpOffset", "Rand",
     "Display", "SkipIfKey", "SkipIfNotKey", "LoadDelay", "WaitForKey",
     "StoreDelay", "StoreSound", "AddI", "LoadDigit", "Bcd", "StoreRegisters",
     "LoadRegisters", "NoOp"}

\* C30: the step that executes a word that decodes is dispatched to a handler
\* or to the no-op arm: the instruction decoded is one the match of tick
\* names, and the step does not abort.
C30_EveryInstructionHandled ==
    [][(Fetches /\ try_from(WordAt(vm))[1] # "InvalidOpcode")
          => /\ opcode' = try_from(WordAt(vm))
             /\ opcode'[1] \in Handled
             /\ result' # Panic
             /\ emu' = "ready"]_vars

\* FF65, the word of the last arm of the decoder
C30_Witness ==
    /\ emu = "ready" /\ call = <<"tick">> /\ result = Ok
    /\ opcode = <<"LoadRegisters", 15>>
    /\ vm.i_register = 16 /\ vm.pc = 514
    /\ vm.v_registers[0] = 240 /\ vm.v_registers[5] = 32 /\ vm.v_registers[15] = 240

\* the cells the set bits of the sprite of the word at pc fall on when the
\* sprite is drawn at (sx, sy)
ToggledAt(sx, sy) ==
    { ((sy + rc[1]) % 32) * 64 + ((sx + rc[2]) % 64) :
         rc \in {p \in (0..((WordAt(vm) % 16) - 1)) \X (0..7) :
                    SpriteBit(p[1], p[2])} }

\* the coordinate Dxyn takes from register r: 0 when r is VF
FlagCoordinate(r) == IF r = 15 THEN 0 ELSE vm.v_registers[r]

\* C31: Dxyn with x = F or y = F draws the sprite with that coordinate taken
\* as 0, whatever VF held before the step, and leaves in VF the collision
\* flag of the sprite drawn there; nothing else changes but pc.
C31_DrawClearsFlagFirst ==
    [][LET w == WordAt(vm)
           sx == FlagCoordinate(XOf(w))
           sy == FlagCoordinate(YOf(w))
           cells == ToggledAt(sx, sy)
       IN  (/\ ExecutesDraw
            /\ XOf(w) = 15 \/ YOf(w) = 15
            /\ sx + 7 < U8 /\ sy + (w % 16) <= U8)
              => /\ result' = Ok
                 /\ vm' = [vm EXCEPT
                             !.pc = vm.pc + 2,
                             !.display = (vm.display \ cells)
                                             \cup (cells \ vm.display),
                             !.v_registers[15] =
                                 IF cells \cap vm.display # {} THEN 1 ELSE 0]]_vars

\* 6F28 6103 DF15: VF held 40, the glyph is drawn at (0, 3) and VF = 0
C31_Witness ==
    /\ emu = "ready" /\ call = <<"tick">> /\ result = Ok /\ ticks = 3
    /\ opcode = <<"Display", 15, 1, 5>>
    /\ Byte(vm.ram, 513) = 40 /\ vm.v_registers[1] = 3
    /\ vm.v_registers[15] = 0
    /\ 3 * 64 \in vm.display /\ 3 * 64 + 40 \notin vm.display
    /\ Cardinality(vm.display) = 14

\* 6FFF 6100 D225 DFF5: VF held 255, the glyph is drawn at (0, 0) over its
\* first copy and VF = 1
C31_WitnessCollision ==
    /\ emu = "ready" /\ call = <<"tick">> /\ result = Ok /\ ticks = 4
    /\ opcode = <<"Display", 15, 15, 5>>
    /\ Byte(vm.ram, 513) = 255
    /\ vm.v_registers[15] = 1 /\ vm.display = {}

\* the block i .. i + x of the word at pc begins in memory and ends past it
BlockCrossesEnd ==
    /\ vm.i_register <= 4095
    /\ vm.i_register + XOf(WordAt(vm)) > 4095

\* C32: Fx55 with i <= 4095 < i + x returns InvalidAddress(4096) with
\* V0..V(4095 - i) written to memory[i .. 4095] and i = 4096; Fx65 likewise
\* with V0..V(4095 - i) read from there; with i > 4095 either returns
\* InvalidAddress and changes nothing; pc is past the instruction in all cases.
C32_BlockNotAtomic ==
    [][LET x == XOf(WordAt(vm))
           i == vm.i_register
       IN  /\ (Executes(85) /\ BlockCrossesEnd)
                => /\ result' = InvalidAddress(4096)
                   /\ \A a \in 0..4095 :
                         Byte(vm'.ram, a) =
                            (IF a >= i THEN vm.v_registers[a - i]
                             ELSE Byte(vm.ram, a))
                   /\ vm' = [vm EXCEPT !.pc = vm.pc + 2,
                                       !.i_register = 4096,
                                       !.ram = vm'.ram]
           /\ (Executes(101) /\ BlockCrossesEnd)
                => /\ result' = InvalidAddress(4096)
                   /\ vm' = [vm EXCEPT
                               !.pc = vm.pc + 2,
                               !.i_register = 4096,
                               !.v_registers =
                                   [r \in 0..15 |->
                                       IF r <= 4095 - i THEN Byte(vm.ram, i + r)
                                       ELSE vm.v_registers[r]]]
           /\ ((Executes(85) \/ Executes(101)) /\ i > 4095)
                => /\ result'[1] = "InvalidAddress"
                   /\ vm' = [vm EXCEPT !.pc = vm.pc + 2]]_vars

\* FF65 AFFE F755 ..: V0 and V1 are in the last two bytes of memory, i = 4096
C32_Witness ==
    /\ emu = "ready" /\ call = <<"tick">> /\ result = InvalidAddress(4096)
    /\ opcode = <<"StoreRegisters", 7>> /\ ticks = 3
    /\ vm.i_register = 4096 /\ vm.pc = 518
    /\ vm.v_registers[0] = 240 /\ vm.v_registers[1] = 144 /\ vm.v_registers[2] = 144
    /\ Byte(vm.ram, 4094) = 240 /\ Byte(vm.ram, 4095) = 144

\* the faulting load of the same program: V0 and V1 are back, V2 is still 0
C32_WitnessLoad ==
    /\ emu = "ready" /\ call = <<"tick">> /\ result = InvalidAddress(4096)
    /\ opcode = <<"LoadRegisters", 7>> /\ ticks = 8
    /\ vm.i_register = 4096
    /\ vm.v_registers[0] = 240 /\ vm.v_registers[1] = 144 /\ vm.v_registers[2] = 0

\* a store with i = 4096 left by the store before it
C32_WitnessOutside ==
    /\ emu = "ready" /\ call = <<"tick">> /\ result[1] = "InvalidAddress"
    /\ opcode = <<"StoreRegisters", 7>> /\ ticks = 4
    /\ vm.i_register = 4096 /\ vm.pc = 520

====
